---------------------------- MODULE Spec2Model ----------------------------
(***************************************************************************)
(* A model of the glyph recognition core of pdf2latex: the region finder   *)
(* (find_parts), the flood fill, the glyph distance, the nearest-neighbour *)
(* search (UnknownGlyph::try_guess), the glyph join, the baseline of a     *)
(* line (most_frequent) and the way from a page image to guessed glyphs    *)
(* (Page::from, Page::guess), with the threads of Page::guess, the verify  *)
(* pass (Page::verify), the line breaks of Page::get_latex, the loading of *)
(* the fonts (FontBase::try_from) and the two main functions.  Each has a  *)
(* specification of its own.                                               *)
(*                                                                         *)
(* Grayscale values are the integers 0..255 (255 is white).  Distances,    *)
(* which the program computes in f32 on values scaled by 1/255, are kept   *)
(* exactly, in units of 1/(255*255): the f32 distance d is the integer     *)
(* d * 255 * 255 here, and rounding of f32 sums is not modelled.           *)
(***************************************************************************)
EXTENDS Integers, Sequences, FiniteSets, TLC

VARIABLES
    pc,         \* position of the modelled call: "input" before, "done" after
    gray,       \* the GrayImage given to find_parts / flood_fill
    spacing,    \* find_parts: the spacing argument
    parts,      \* find_parts: the returned Vec<(u32, u32)>
    start,      \* flood_fill: the seed pixels
    threshold,  \* flood_fill: the threshold argument
    pixels,     \* flood_fill: the worklist, which is also the result
    index,      \* flood_fill: the position of the worklist loop
    self,       \* join: the UnknownGlyph join is called on
    other,      \* join: the UnknownGlyph given to join
    joined,     \* join: the result of self.join(other), once computed
    swapped,    \* join: the result of other.join(self), once computed
    offset,     \* distance: the offset argument
    limit,      \* distance: the limit argument
    dist,       \* distance: the returned distance, once computed (an Option)
    fontbase,   \* try_guess: the FontBase, a map from Code to family
    order,      \* try_guess: the order in which fontbase.glyphs.values() iterates
    baseline,   \* try_guess: the baseline argument
    aligned,    \* try_guess: the aligned argument of the last call
    examined,   \* try_guess: the candidates the last call compared, with the
                \*            distances it found (history, not program state)
    calls,      \* try_guess: the number of calls made on the glyph self
    page_image, \* Page: the image of the page
    word_spacing,    \* Page::from: the word_spacing argument (an Option)
    overflow_checks, \* whether the build panics on integer overflow (debug)
    lines,      \* Page: the Vec<Line>
    guessed,    \* Page::guess: the lines whose thread has run
    line_words,      \* find_baseline: the words of a line (its argument)
    line_baseline,   \* find_baseline: the returned baseline, once computed
    threads,    \* Page::guess: args.threads
    verbose,    \* Page::guess: args.verbose
    handles,    \* Page::guess: the Vec of join handles (the tasks they join)
    tasks,      \* Page::guess: the threads spawned in the scope, in spawn order
    outcome,    \* Page::guess: what the scope's closure ended with
    latex,      \* Page::get_latex: the margin modes it computed and the
                \*                  marker it appended to each line, once done
    font_files, \* FontBase::try_from: the glyph file of each (code, size)
    program,    \* main: the binary that runs, "pdf2latex" or "fonts"
    codes,      \* bin/fonts.rs: the args.codes still to create
    errors,     \* main: the errors processing has returned (history)
    stderr,     \* main: what was printed to standard error
    exit_status,     \* main: the exit status of the process, once it has ended
    recognizer,      \* Page::verify: what python/recognize_formula.sh does
    margins,         \* handle_formulas_verify: the margin modes (an Option)
    formula_indexes, \* handle_formulas_verify: the lines taken as formulas
    formula_iter,    \* handle_formulas_verify: how far the loop over them has come
    lines_to_remove, \* handle_formulas_verify: the Vec of the lines to remove
    lines_to_modify, \* handle_formulas_verify: the Vec of (line index, word)
    word_glyphs,     \* Word::guess: self.glyphs
    base_index,      \* Word::guess: the local base_index
    collapse_length, \* Word::guess: the local collapse_length, 0 outside the for loop
    attempts,        \* Word::guess: the joins tried so far (history)
    runs,            \* Word::guess: for each glyph of the word, the detected glyphs
                     \*              it is made of and the merges that made it (history)
    detected,        \* Word::guess: the glyphs as the first loop left them (history)
    step             \* Word::guess: what the last turn of the merge loop did (history)

vars == <<pc, gray, spacing, parts, start, threshold, pixels, index,
          self, other, joined, swapped, offset, limit, dist,
          fontbase, order, baseline, aligned, examined, calls,
          page_image, word_spacing, overflow_checks, lines, guessed,
          line_words, line_baseline,
          threads, verbose, handles, tasks, outcome, latex, font_files,
          program, codes, errors, stderr, exit_status,
          recognizer, margins, formula_indexes, formula_iter,
          lines_to_remove, lines_to_modify,
          word_glyphs, base_index, collapse_length, attempts, runs, detected,
          step>>

partsVars == <<spacing, parts>>
floodVars == <<start, threshold, pixels, index>>
joinVars == <<self, other, joined, swapped>>
distVars == <<offset, limit, dist>>
guessVars == <<fontbase, order, baseline, aligned, examined, calls>>
pageVars == <<page_image, word_spacing, overflow_checks, lines, guessed>>
lineVars == <<line_words, line_baseline>>
threadVars == <<threads, verbose, handles, tasks, outcome>>
latexVars == <<latex>>
fontVars == <<font_files>>
mainVars == <<program, codes, errors, stderr, exit_status>>
verifyVars == <<recognizer, margins, formula_indexes, formula_iter,
                lines_to_remove, lines_to_modify>>
wordVars == <<word_glyphs, base_index, collapse_length, attempts, runs,
              detected, step>>

(***************************************************************************)
(* Images.  A GrayImage is a record of its width, its height and its       *)
(* row-major data, as in the image crate and in Glyph::image.              *)
(***************************************************************************)
WHITE == 255

Images(w, h, vals) ==
    {[width |-> w, height |-> h, data |-> d] : d \in [1..(w * h) -> vals]}

Pix(img, x, y) == img.data[x + y * img.width + 1]

NoImage == [width |-> 0, height |-> 0, data |-> <<>>]

(***************************************************************************)
(* utils.rs: find_parts                                                    *)
(***************************************************************************)
RECURSIVE RowSum(_, _, _)
RowSum(img, i, x) ==
    IF x >= img.width THEN 0 ELSE Pix(img, x, i) + RowSum(img, i, x + 1)

\* the average grayscale of row i, in u32 arithmetic (integer division)
RowAverage(img, i) == RowSum(img, i, 0) \div img.width

\* one iteration of the loop over the rows; st holds the loop's locals
FindPartsRow(img, sp, i, st) ==
    LET average == RowAverage(img, i) IN
    IF st.in_part /\ average = WHITE
    THEN LET end == IF st.end = 0 THEN i ELSE st.end IN
         IF i - end >= sp
         THEN [st EXCEPT !.end = end,
                         !.parts = Append(st.parts, <<st.start, end - 1>>),
                         !.in_part = FALSE]
         ELSE [st EXCEPT !.end = end]
    ELSE IF average # WHITE
    THEN IF ~st.in_part
         THEN [st EXCEPT !.end = 0, !.start = i, !.in_part = TRUE]
         ELSE [st EXCEPT !.end = 0]
    ELSE st

RECURSIVE FindPartsLoop(_, _, _, _)
FindPartsLoop(img, sp, i, st) ==
    IF i >= img.height THEN st
    ELSE FindPartsLoop(img, sp, i + 1, FindPartsRow(img, sp, i, st))

\* Add the last part if needed
LastPart(img, st) ==
    IF st.in_part THEN Append(st.parts, <<st.start, img.height>>) ELSE st.parts

FindParts(img, sp) ==
    LastPart(img, FindPartsLoop(img, sp, 0,
                      [start |-> 0, end |-> 0, in_part |-> FALSE, parts |-> <<>>]))

(***************************************************************************)
(* The specification of find_parts: any image of PartsWidth columns and up *)
(* to MaxRows rows, any spacing up to MaxSpacing.                          *)
(***************************************************************************)
MaxRows == 4
MaxSpacing == 3
PartsVals == {0, 254, 255}
PartsWidth == {2}

PartsIdle == spacing = 0 /\ parts = <<>>

FloodIdle == start = <<>> /\ threshold = 0 /\ pixels = <<>> /\ index = 0

JoinIdle == self = <<>> /\ other = <<>> /\ joined = <<>> /\ swapped = <<>>

DistIdle == offset = 0 /\ limit = 0 /\ dist = <<>>

GuessIdle ==
    /\ fontbase = <<>> /\ order = <<>> /\ baseline = 0
    /\ aligned = TRUE /\ examined = <<>> /\ calls = 0

PageIdle ==
    /\ page_image = NoImage /\ word_spacing = <<>> /\ overflow_checks = FALSE
    /\ lines = <<>> /\ guessed = {}

LineIdle == line_words = <<>> /\ line_baseline = <<>>

ThreadIdle ==
    /\ threads = 0 /\ verbose = FALSE /\ handles = <<>> /\ tasks = <<>>
    /\ outcome = "none"

LatexIdle == latex = <<>>

FontIdle == font_files = <<>>

MainIdle ==
    /\ program = "" /\ codes = <<>> /\ errors = <<>> /\ stderr = <<>>
    /\ exit_status = <<>>

VerifyIdle ==
    /\ recognizer = "" /\ margins = <<>> /\ formula_indexes = <<>>
    /\ formula_iter = 0 /\ lines_to_remove = <<>> /\ lines_to_modify = <<>>

\* no turn of the merge loop taken yet
NoStep == [kind |-> "none", at |-> 0, before |-> <<>>, new |-> <<>>,
           accepted |-> FALSE]

WordIdle ==
    /\ word_glyphs = <<>> /\ base_index = 0 /\ collapse_length = 0 /\ attempts = 0
    /\ runs = <<>> /\ detected = <<>> /\ step = NoStep

PartsInit ==
    /\ pc = "input"
    /\ gray \in UNION {Images(w, h, PartsVals) : w \in PartsWidth, h \in 1..MaxRows}
    /\ spacing \in 0..MaxSpacing
    /\ parts = <<>>
    /\ FloodIdle /\ JoinIdle /\ DistIdle /\ GuessIdle /\ PageIdle
    /\ WordIdle /\ VerifyIdle /\ LineIdle /\ ThreadIdle /\ LatexIdle
    /\ FontIdle /\ MainIdle

FindPartsCall ==
    /\ pc = "input"
    /\ parts' = FindParts(gray, spacing)
    /\ pc' = "done"
    /\ UNCHANGED <<gray, spacing, floodVars, joinVars, distVars, guessVars, pageVars,
                   lineVars, threadVars, latexVars, fontVars,
                   mainVars, verifyVars, wordVars>>

PartsNext == FindPartsCall

SpecParts == PartsInit /\ [][PartsNext]_vars

(***************************************************************************)
(* utils.rs: flood_fill                                                    *)
(***************************************************************************)
CHAR_THRESHOLD == 75

\* u32::saturating_add_signed for small operands
SaturatingAddSigned(x, d) == IF x + d < 0 THEN 0 ELSE x + d

Contains(seq, e) == \E k \in 1..Len(seq) : seq[k] = e

\* a mutant of Collectable: white neighbours are pushed as well
CollectableMutant(img, nx, ny) == Pix(img, nx, ny) <= WHITE

\* the test a neighbour passes to be pushed, besides being new and inside
Collectable(img, nx, ny) == Pix(img, nx, ny) < WHITE

\* for dx in -1..2 { for dy in -1..2 { ... } }, k counting the 9 iterations
RECURSIVE FloodExpand(_, _, _, _, _)
FloodExpand(pxs, img, x, y, k) ==
    IF k > 8 THEN pxs
    ELSE LET dx == (k \div 3) - 1
             dy == (k % 3) - 1
             nx == SaturatingAddSigned(x, dx)
             ny == SaturatingAddSigned(y, dy)
             push == /\ nx < img.width
                     /\ ny < img.height
                     /\ ~Contains(pxs, <<nx, ny>>)
                     /\ Collectable(img, nx, ny)
         IN  FloodExpand(IF push THEN Append(pxs, <<nx, ny>>) ELSE pxs,
                         img, x, y, k + 1)

\* a mutant of Expands: the fill extends from every non-white pixel
ExpandsMutant(img, x, y, t) == Pix(img, x, y) < WHITE

\* whether the fill extends from a pixel of the worklist
Expands(img, x, y, t) == Pix(img, x, y) <= t

\* one iteration of the while loop, on pixels[index]
FloodVisit(pxs, idx, img, t) ==
    LET x == pxs[idx + 1][1]
        y == pxs[idx + 1][2]
    IN  IF Expands(img, x, y, t) THEN FloodExpand(pxs, img, x, y, 0) ELSE pxs

RECURSIVE FloodLoop(_, _, _, _)
FloodLoop(pxs, idx, img, t) ==
    IF idx >= Len(pxs) THEN pxs
    ELSE FloodLoop(FloodVisit(pxs, idx, img, t), idx + 1, img, t)

FloodFill(seeds, img, t) == FloodLoop(seeds, 0, img, t)

(***************************************************************************)
(* The specification of flood_fill, one step per iteration of its loop:    *)
(* any image of FloodWidth columns and two rows; one seed anywhere, or two  *)
(* seeds, the first of them in the first column.                           *)
(***************************************************************************)
FloodWidth == 3
FloodVals == {0, 100, 255}
FloodThresholds == {CHAR_THRESHOLD, 255}

Positions(img) == (0..(img.width - 1)) \X (0..(img.height - 1))

FloodInit ==
    /\ pc = "input"
    /\ gray \in Images(FloodWidth, 2, FloodVals)
    /\ threshold \in FloodThresholds
    /\ start \in {<<p>> : p \in Positions(gray)}
                 \cup {<<p, q>> : p \in {0} \X (0..1), q \in Positions(gray)}
    /\ pixels = <<>>
    /\ index = 0
    /\ PartsIdle /\ JoinIdle /\ DistIdle /\ GuessIdle /\ PageIdle
    /\ WordIdle /\ VerifyIdle /\ LineIdle /\ ThreadIdle /\ LatexIdle
    /\ FontIdle /\ MainIdle

\* let mut pixels = start; let mut index = 0;
FloodBegin ==
    /\ pc = "input"
    /\ pixels' = start
    /\ index' = 0
    /\ pc' = "loop"
    /\ UNCHANGED <<gray, start, threshold, partsVars, joinVars, distVars, guessVars, pageVars,
                   lineVars, threadVars, latexVars, fontVars,
                   mainVars, verifyVars, wordVars>>

\* the body of while index < pixels.len()
FloodStep ==
    /\ pc = "loop"
    /\ index < Len(pixels)
    /\ pixels' = FloodVisit(pixels, index, gray, threshold)
    /\ index' = index + 1
    /\ UNCHANGED <<pc, gray, start, threshold, partsVars, joinVars, distVars, guessVars, pageVars,
                   lineVars, threadVars, latexVars, fontVars,
                   mainVars, verifyVars, wordVars>>

\* the loop condition fails: pixels is returned
FloodReturn ==
    /\ pc = "loop"
    /\ index >= Len(pixels)
    /\ pc' = "done"
    /\ UNCHANGED <<gray, start, threshold, pixels, index, partsVars, joinVars, distVars, guessVars, pageVars,
                   lineVars, threadVars, latexVars, fontVars,
                   mainVars, verifyVars, wordVars>>

FloodNext == FloodBegin \/ FloodStep \/ FloodReturn

SpecFlood == FloodInit /\ [][FloodNext]_vars

(***************************************************************************)
(* fonts/glyph.rs: UnknownGlyph and UnknownGlyph::join                     *)
(*                                                                         *)
(* An Option is a sequence of length at most one: <<>> is None and <<v>>   *)
(* is Some(v).                                                             *)
(***************************************************************************)
Rect(x, y, width, height) == [x |-> x, y |-> y, width |-> width, height |-> height]

UnknownGlyph(rect, image) ==
    [rect |-> rect, image |-> image, dist |-> <<>>, guess |-> <<>>]

Min(a, b) == IF a <= b THEN a ELSE b
Max(a, b) == IF a >= b THEN a ELSE b

\* DynamicImage::to_luma8 on one Rgb pixel: the image crate's integer
\* weights, 0.2126 R + 0.7152 G + 0.0722 B
RgbToLuma(r, g, b) == (2126 * r + 7152 * g + 722 * b) \div 10000

\* the two loops that put every pixel of glyph g, white ones included, on a
\* canvas of the given width whose origin is (x, y) on the page
PutGlyph(canvas, width, g, x, y) ==
    [i \in DOMAIN canvas |->
        LET nx == ((i - 1) % width) - (g.rect.x - x)
            ny == ((i - 1) \div width) - (g.rect.y - y)
        IN  IF nx \in 0..(g.rect.width - 1) /\ ny \in 0..(g.rect.height - 1)
            THEN g.image[nx + ny * g.rect.width + 1]
            ELSE canvas[i]]

\* a mutant of JoinRect: the sizes are joined without regard to positions
JoinRectMutant(s, o) ==
    Rect(Min(s.rect.x, o.rect.x), Min(s.rect.y, o.rect.y),
         Max(s.rect.width, o.rect.width), Max(s.rect.height, o.rect.height))

\* the new boundaries
JoinRect(s, o) ==
    LET x == Min(s.rect.x, o.rect.x)
        y == Min(s.rect.y, o.rect.y)
    IN  Rect(x, y,
             Max(s.rect.x + s.rect.width - x, o.rect.x + o.rect.width - x),
             Max(s.rect.y + s.rect.height - y, o.rect.y + o.rect.height - y))

\* to_luma8().into_raw() of pixels that are Rgb([v, v, v])
LumaOf(data) == [i \in DOMAIN data |-> RgbToLuma(data[i], data[i], data[i])]

\* RgbImage::from_pixel(width, height, Rgb([255, 255, 255]))
Blank(width, height) == [i \in 1..(width * height) |-> WHITE]

\* And create the image from both: self is put first, other over it
JoinAt(rect, s, o) ==
    UnknownGlyph(rect,
        LumaOf(PutGlyph(PutGlyph(Blank(rect.width, rect.height),
                                 rect.width, s, rect.x, rect.y),
                        rect.width, o, rect.x, rect.y)))

Join(s, o) == JoinAt(JoinRect(s, o), s, o)

(***************************************************************************)
(* The specification of join: two glyphs of one or two pixels a side,      *)
(* each placed anywhere up to MaxPos on the page, joined both ways round.  *)
(***************************************************************************)
MaxPos == 1
JoinSides == {1, 2}
JoinVals == {0, 255}

Glyphs(maxpos, sides, vals) ==
    {UnknownGlyph(Rect(x, y, img.width, img.height), img.data) :
        x \in 0..maxpos, y \in 0..maxpos,
        img \in UNION {Images(w, h, vals) : w \in sides, h \in sides}}

JoinInit ==
    /\ pc = "input"
    /\ self \in Glyphs(MaxPos, JoinSides, JoinVals)
    /\ other \in Glyphs(MaxPos, JoinSides, JoinVals)
    /\ joined = <<>>
    /\ swapped = <<>>
    /\ gray = NoImage
    /\ PartsIdle /\ FloodIdle /\ DistIdle /\ GuessIdle /\ PageIdle
    /\ WordIdle /\ VerifyIdle /\ LineIdle /\ ThreadIdle /\ LatexIdle
    /\ FontIdle /\ MainIdle

\* self.join(other)
JoinCall ==
    /\ pc = "input"
    /\ joined = <<>>
    /\ joined' = <<Join(self, other)>>
    /\ pc' = IF swapped = <<>> THEN "input" ELSE "done"
    /\ UNCHANGED <<gray, self, other, swapped, partsVars, floodVars, distVars, guessVars, pageVars,
                   lineVars, threadVars, latexVars, fontVars,
                   mainVars, verifyVars, wordVars>>

\* other.join(self)
JoinSwapped ==
    /\ pc = "input"
    /\ swapped = <<>>
    /\ swapped' = <<Join(other, self)>>
    /\ pc' = IF joined = <<>> THEN "input" ELSE "done"
    /\ UNCHANGED <<gray, self, other, joined, partsVars, floodVars, distVars, guessVars, pageVars,
                   lineVars, threadVars, latexVars, fontVars,
                   mainVars, verifyVars, wordVars>>

JoinNext == JoinCall \/ JoinSwapped

SpecJoin == JoinInit /\ [][JoinNext]_vars

(***************************************************************************)
(* fonts/glyph.rs: KnownGlyph and the Glyph trait (get_pixel, distance)    *)
(*                                                                         *)
(* TLC's integers are 32 bits wide: f32::INFINITY and f32::MAX are the     *)
(* number INFINITY, which no distance of the model comes near, and the     *)
(* u32 wrap-around is taken modulo the same number, which like 2^32 is     *)
(* above every width and height.                                           *)
(***************************************************************************)
INFINITY == 2 ^ 30

DIST_THRESHOLD == 4

\* the f32 value v in the model's units of 1/(255*255)
Scaled(v) == v * 255 * 255

KnownGlyph(base, code, image, offs) ==
    [base |-> base, code |-> code,
     rect |-> Rect(0, 0, image.width, image.height),
     image |-> image.data, offset |-> offs]

\* 255 times get_pixel: the grayscale at (x, y), white outside of the rect
GetPixel(g, x, y) ==
    IF x >= g.rect.width \/ y >= g.rect.height THEN WHITE
    ELSE g.image[x + y * g.rect.width + 1]

GetPixelSigned(g, x, y) ==
    IF x < 0 \/ y < 0 \/ x >= g.rect.width \/ y >= g.rect.height THEN WHITE
    ELSE g.image[x + y * g.rect.width + 1]

WrappingAddSigned(x, d) == (x + d) % INFINITY

Square(v) == v * v

\* First compute the distance relative to self: the accumulator of the
\* shift (dx, dy) over the pixels n = x * height + y and after, in the
\* order of the loops (x outside, y inside)
RECURSIVE SelfPass(_, _, _, _, _, _, _)
SelfPass(s, o, dx, dy, lim, n, value) ==
    IF n >= s.rect.width * s.rect.height THEN value
    ELSE LET x == n \div s.rect.height
             y == n % s.rect.height
             v_g == GetPixel(s, x, y)
             v_o == GetPixelSigned(o, x + dx, y + dy)
         IN  SelfPass(s, o, dx, dy, lim, n + 1,
                      IF value < lim /\ v_g # WHITE
                      THEN value + Square(v_g - v_o) ELSE value)

\* Then add the distance relative to other
RECURSIVE OtherPass(_, _, _, _, _, _, _)
OtherPass(s, o, dx, dy, lim, n, value) ==
    IF n >= o.rect.width * o.rect.height THEN value
    ELSE LET x == n \div o.rect.height
             y == n % o.rect.height
             v_g == GetPixelSigned(s, x - dx, y - dy)
             v_o == GetPixel(o, WrappingAddSigned(x, dx), WrappingAddSigned(y, dy))
         IN  OtherPass(s, o, dx, dy, lim, n + 1,
                       IF value < lim /\ v_g = WHITE
                       THEN value + Square(v_g - v_o) ELSE value)

\* the final value of the accumulator dist[(dx, dy)]
ShiftDistance(s, o, dx, dy, lim) ==
    OtherPass(s, o, dx, dy, lim, 0, SelfPass(s, o, dx, dy, lim, 0, 0))

\* the keys of the map dist
Shifts(offs) == {<<dx, dy + offs>> : dx \in -1..1, dy \in -1..1}

MinOf(S) == CHOOSE v \in S : \A u \in S : v <= u

MaxOf(S) == CHOOSE v \in S : \A u \in S : v >= u

\* a mutant of Distance: the largest of the 9 accumulators
DistanceMutant(s, o, offs, lim) ==
    MaxOf({ShiftDistance(s, o, d[1], d[2], lim) : d \in Shifts(offs)})

\* self.distance(other, offset, limit)
Distance(s, o, offs, lim) ==
    MinOf({ShiftDistance(s, o, d[1], d[2], lim) : d \in Shifts(offs)})

(***************************************************************************)
(* The specification of distance: an UnknownGlyph and a KnownGlyph of one  *)
(* or two pixels a side, offsets up to MaxOffset either way, and a limit   *)
(* that is f32::MAX or a small number.                                     *)
(***************************************************************************)
MaxOffset == 1
DistSides == {1, 2}
DistVals == {0, 128, 255}

DistInit ==
    /\ pc = "input"
    /\ self \in Glyphs(0, DistSides, DistVals)
    /\ other \in {KnownGlyph("A", "cmr", img, 0) :
                     img \in UNION {Images(w, h, DistVals) : w \in DistSides, h \in DistSides}}
    /\ offset \in (-MaxOffset)..MaxOffset
    /\ limit \in {INFINITY, Scaled(1)}
    /\ dist = <<>>
    /\ joined = <<>> /\ swapped = <<>>
    /\ gray = NoImage
    /\ PartsIdle /\ FloodIdle /\ GuessIdle /\ PageIdle /\ LineIdle
    /\ WordIdle /\ VerifyIdle /\ ThreadIdle /\ LatexIdle /\ FontIdle
    /\ MainIdle

DistanceCall ==
    /\ pc = "input"
    /\ dist' = <<Distance(self, other, offset, limit)>>
    /\ pc' = "done"
    /\ UNCHANGED <<gray, self, other, joined, swapped, offset, limit,
                   partsVars, floodVars, guessVars, pageVars,
                   lineVars, threadVars, latexVars, fontVars,
                   mainVars, verifyVars, wordVars>>

DistNext == DistanceCall

SpecDistance == DistInit /\ [][DistNext]_vars

(***************************************************************************)
(* fonts/fonts.rs: FontBase; fonts/glyph.rs: UnknownGlyph::try_guess       *)
(***************************************************************************)
\* FontBase::load_family: the glyphs of a family, grouped by dimensions in
\* the order they were read
LoadFamily(glyphs) ==
    LET Dims(g) == <<g.rect.width, g.rect.height>>
    IN  [d \in {Dims(glyphs[i]) : i \in 1..Len(glyphs)} |->
            LET Here(g) == Dims(g) = d IN SelectSeq(glyphs, Here)]

\* family.get(&(width, height)), nothing standing for None
Bucket(family, width, height) ==
    IF <<width, height>> \in DOMAIN family THEN family[<<width, height>>] ELSE <<>>

\* a mutant of DimDeltas: only dimensions within one pixel are looked at
DimDeltasMutant == <<0, -1, 1>>

\* for dw in [0, -1, 1, -2, 2] { for dh in [0, -1, 1, -2, 2] { ... } }
DimDeltas == <<0, -1, 1, -2, 2>>

\* the glyphs of one family that have similar dimensions, in the order the
\* loops over dw and dh reach them; n counts the iterations
RECURSIVE FamilyCandidates(_, _, _)
FamilyCandidates(family, rect, n) ==
    IF n >= Len(DimDeltas) * Len(DimDeltas) THEN <<>>
    ELSE LET dw == DimDeltas[(n \div Len(DimDeltas)) + 1]
             dh == DimDeltas[(n % Len(DimDeltas)) + 1]
             width == SaturatingAddSigned(rect.width, dw)
             height == SaturatingAddSigned(rect.height, dh)
         IN  Bucket(family, width, height) \o FamilyCandidates(family, rect, n + 1)

\* the same over the families, in the order the map iterates
RECURSIVE Candidates(_, _, _)
Candidates(fb, ord, rect) ==
    IF ord = <<>> THEN <<>>
    ELSE FamilyCandidates(fb[Head(ord)], rect, 0) \o Candidates(fb, Tail(ord), rect)

Abs(v) == IF v < 0 THEN -v ELSE v

\* the offset of a candidate related to the baseline
AlignOffset(s, glyph, base) ==
    glyph.offset - ((s.rect.y + s.rect.height) - base)

\* the distance try_guess computes for a candidate, the running best given
\* as limit
GuessDistance(s, glyph, base, algn, closest) ==
    LET offs == AlignOffset(s, glyph, base)
    IN  Distance(s, glyph, IF algn THEN offs ELSE 0, closest)
            + (IF algn THEN 0 ELSE Scaled(Abs(offs)))

\* a mutant of Improves: a candidate as good as the best so far replaces it
ImprovesMutant(d, closest) == d <= closest

\* if dist < closest
Improves(d, closest) == d < closest

\* a mutant of GoodEnough: the scan never stops early
GoodEnoughMutant(d) == FALSE

\* if dist < DIST_THRESHOLD
GoodEnough(d) == d < Scaled(DIST_THRESHOLD)

\* the body of the innermost loop once dist is computed: st holds closest,
\* current_guess, the candidates compared so far, and whether break 'outer
\* was taken
Compared(st, glyph, d) ==
    [closest |-> IF Improves(d, st.closest) THEN d ELSE st.closest,
     current_guess |-> IF Improves(d, st.closest) THEN <<glyph>> ELSE st.current_guess,
     examined |-> Append(st.examined, [glyph |-> glyph, dist |-> d]),
     stopped |-> GoodEnough(d)]

\* the loop over the candidates from the i-th on
RECURSIVE Scan(_, _, _, _, _, _)
Scan(s, cands, i, base, algn, st) ==
    IF i > Len(cands) \/ st.stopped THEN st
    ELSE Scan(s, cands, i + 1, base, algn,
              Compared(st, cands[i],
                       GuessDistance(s, cands[i], base, algn, st.closest)))

\* the locals of try_guess when its loops are left
GuessScan(s, fb, ord, base, algn) ==
    Scan(s, Candidates(fb, ord, s.rect), 1, base, algn,
         [closest |-> IF s.dist = <<>> THEN INFINITY ELSE s.dist[1],
          current_guess |-> <<>>,
          examined |-> <<>>,
          stopped |-> FALSE])

\* let _ = self.dist.insert(closest); self.guess = current_guess.cloned();
Guessed(s, st) == [s EXCEPT !.dist = <<st.closest>>, !.guess = st.current_guess]

\* the glyph after self.try_guess(fontbase, baseline, aligned)
TryGuess(s, fb, ord, base, algn) == Guessed(s, GuessScan(s, fb, ord, base, algn))

(***************************************************************************)
(* The specification of try_guess: a glyph as the segmentation makes them  *)
(* (ink on each side of its rect) of one or two pixels a side, a FontBase  *)
(* of two families holding up to two and up to one glyph of a small font,  *)
(* any baseline up to MaxBaseline, and up to MaxCalls calls on the glyph.  *)
(***************************************************************************)
MaxBaseline == 2
MaxCalls == 2
GuessSides == {1, 2}
GuessVals == {0, 255}

Solid(w, h) == [width |-> w, height |-> h, data |-> [i \in 1..(w * h) |-> 0]]

\* the font: base, bitmap and offset of each glyph that can be rendered
Font ==
    { <<"A", Solid(2, 2), 0>>,
      <<"g", Solid(2, 4), 2>>,
      <<"l", Solid(1, 2), 0>>,
      <<"Q", Solid(4, 4), 2>>,
      <<"x", [width |-> 2, height |-> 2, data |-> <<0, 255, 255, 0>>], 0>>,
      <<".", Solid(1, 1), 0>> }

Rendered(code) == {KnownGlyph(f[1], code, f[2], f[3]) : f \in Font}

\* the sequences of at most n elements of S
RECURSIVE SeqsUpTo(_, _)
SeqsUpTo(S, n) ==
    IF n = 0 THEN {<<>>}
    ELSE LET shorter == SeqsUpTo(S, n - 1)
         IN  shorter \cup {Append(q, e) : q \in shorter, e \in S}

Distinct(q) == \A i, j \in 1..Len(q) : q[i] = q[j] => i = j

FontBases ==
    {[code \in {"cmr", "lmr"} |->
        LoadFamily(IF code = "cmr" THEN c ELSE l)] :
        c \in {q \in SeqsUpTo(Rendered("cmr"), 2) : Distinct(q)},
        l \in {q \in SeqsUpTo(Rendered("lmr"), 1) : Distinct(q)}}

\* the glyphs flood_fill and join make: ink in the first and the last row
\* and column of the rect
Tight(g) ==
    /\ \A x \in {0, g.rect.width - 1} :
           \E y \in 0..(g.rect.height - 1) : GetPixel(g, x, y) # WHITE
    /\ \A y \in {0, g.rect.height - 1} :
           \E x \in 0..(g.rect.width - 1) : GetPixel(g, x, y) # WHITE

GuessInit ==
    /\ pc = "input"
    /\ self \in {g \in Glyphs(0, GuessSides, GuessVals) : Tight(g)}
    /\ fontbase \in FontBases
    /\ order \in {<<"cmr", "lmr">>, <<"lmr", "cmr">>}
    /\ baseline \in 0..MaxBaseline
    /\ aligned = TRUE
    /\ examined = <<>>
    /\ calls = 0
    /\ other = <<>> /\ joined = <<>> /\ swapped = <<>>
    /\ gray = NoImage
    /\ PartsIdle /\ FloodIdle /\ DistIdle /\ PageIdle /\ LineIdle
    /\ WordIdle /\ VerifyIdle /\ ThreadIdle /\ LatexIdle /\ FontIdle
    /\ MainIdle

\* self.try_guess(fontbase, baseline, algn)
TryGuessCall(algn) ==
    /\ calls < MaxCalls
    /\ \E st \in {GuessScan(self, fontbase, order, baseline, algn)} :
          self' = Guessed(self, st) /\ examined' = st.examined
    /\ aligned' = algn
    /\ calls' = calls + 1
    /\ UNCHANGED <<pc, gray, other, joined, swapped, fontbase, order, baseline,
                   partsVars, floodVars, distVars, pageVars,
                   lineVars, threadVars, latexVars, fontVars,
                   mainVars, verifyVars, wordVars>>

GuessNext == \E algn \in BOOLEAN : TryGuessCall(algn)

SpecGuess == GuessInit /\ [][GuessNext]_vars

(***************************************************************************)
(* Ink runs, as the claims about find_parts define them.                   *)
(***************************************************************************)
(* utils.rs: most_frequent, and pdf/line.rs: Line::find_baseline           *)
(***************************************************************************)
\* as CountEntries, with the entry set to 0 at every occurrence
CountEntriesMutant(array, k, hash_map) ==
    [v \in {array[i] : i \in k..Len(array)} \cup DOMAIN hash_map |-> 0]

\* hash_map.entry(value).and_modify(|v| *v += 1).or_insert(0), over the
\* array from its k-th element on
RECURSIVE CountEntries(_, _, _)
CountEntries(array, k, hash_map) ==
    IF k > Len(array) THEN hash_map
    ELSE LET value == array[k]
         IN  CountEntries(array, k + 1,
                 IF value \in DOMAIN hash_map
                 THEN [hash_map EXCEPT ![value] = @ + 1]
                 ELSE [v \in DOMAIN hash_map \cup {value} |->
                          IF v = value THEN 0 ELSE hash_map[v]])

\* for (&value, count) in hash_map { if count > max { ... } }, the map
\* iterating in the order iter, from its k-th entry on
RECURSIVE ModeLoop(_, _, _, _)
ModeLoop(hash_map, iter, k, st) ==
    IF k > Len(iter) THEN st
    ELSE LET value == iter[k]
             count == hash_map[value]
         IN  ModeLoop(hash_map, iter, k + 1,
                 IF count > st.max THEN [mode |-> value, max |-> count] ELSE st)

\* the orders in which a HashMap with the keys S can iterate
IterationOrders(S) ==
    {q \in SeqsUpTo(S, Cardinality(S)) : Distinct(q) /\ Len(q) = Cardinality(S)}

\* most_frequent(array, default): the pairs (mode, max) it can return, one
\* for each iteration order of the map
Modes(hash_map, default) ==
    {ModeLoop(hash_map, iter, 1, [mode |-> default, max |-> 0]) :
        iter \in IterationOrders(DOMAIN hash_map)}

MostFrequent(array, default) == Modes(CountEntries(array, 1, <<>>), default)

\* the flat_map over the words from the k-th on: glyph.rect.y + glyph.rect.height
RECURSIVE Bottoms(_, _)
Bottoms(words, k) ==
    IF k > Len(words) THEN <<>>
    ELSE [i \in 1..Len(words[k].glyphs) |->
             words[k].glyphs[i].rect.y + words[k].glyphs[i].rect.height]
         \o Bottoms(words, k + 1)

\* Line::find_baseline: the values most_frequent(&bottoms, 0).0 can take
FindBaseline(words) == {r.mode : r \in MostFrequent(Bottoms(words, 1), 0)}

\* The lines find_baseline is called on: up to MaxGlyphs glyphs in one or
\* two words (a word of faint ink has no glyph), the k-th glyph at x = k,
\* with its top at 0, 1 or 2 and a height of 1 or 2.
MaxGlyphs == 4
GlyphTops == {0, 1, 2}
GlyphHeights == {1, 2}

GlyphRow(rects) ==
    [k \in DOMAIN rects |->
        UnknownGlyph(Rect(k, rects[k][1], 1, rects[k][2]), Solid(1, rects[k][2]).data)]

WordOf(glyphs) ==
    [rect |-> Rect(IF glyphs = <<>> THEN 0 ELSE glyphs[1].rect.x, 0,
                   Len(glyphs), 4),
     glyphs |-> glyphs]

\* the row in one word (cut = -1) or in two, the first of cut glyphs
LineWords(row, cut) ==
    IF cut = -1 THEN <<WordOf(row)>>
    ELSE <<WordOf(SubSeq(row, 1, cut)), WordOf(SubSeq(row, cut + 1, Len(row)))>>

BaselineInit ==
    /\ pc = "input"
    /\ \E n \in 0..MaxGlyphs :
          \E rects \in [1..n -> GlyphTops \X GlyphHeights], cut \in -1..n :
              line_words = LineWords(GlyphRow(rects), cut)
    /\ line_baseline = <<>>
    /\ gray = NoImage
    /\ PartsIdle /\ FloodIdle /\ JoinIdle /\ DistIdle /\ GuessIdle
    /\ WordIdle /\ VerifyIdle /\ PageIdle /\ ThreadIdle /\ LatexIdle
    /\ FontIdle /\ MainIdle

\* Line::find_baseline(&words)
FindBaselineCall ==
    /\ pc = "input"
    /\ line_baseline' \in {<<b>> : b \in FindBaseline(line_words)}
    /\ pc' = "done"
    /\ UNCHANGED <<gray, line_words, partsVars, floodVars, joinVars, distVars,
                   guessVars, pageVars, threadVars,
                   latexVars, fontVars, mainVars, verifyVars,
                   wordVars>>

BaselineNext == FindBaselineCall

SpecBaseline == BaselineInit /\ [][BaselineNext]_vars

(***************************************************************************)
(* pdf/page.rs, pdf/line.rs, pdf/word.rs: a Page is cut in lines, a Line   *)
(* in words, a Word in glyphs, and every glyph is guessed.                 *)
(***************************************************************************)
LINE_SPACING == 10
WORD_SPACING == 15

\* image.crop_imm(x, y, width, height): the view is clamped to the image
Crop(rect, img) ==
    LET x == Min(rect.x, img.width)
        y == Min(rect.y, img.height)
        width == Min(rect.width, img.width - x)
        height == Min(rect.height, img.height - y)
    IN  [width |-> width, height |-> height,
         data |-> [k \in 1..(width * height) |->
                      Pix(img, x + ((k - 1) % width), y + ((k - 1) \div width))]]

\* rotate90: the pixel (x, y) goes to (height - 1 - y, x)
Rotate90(img) ==
    [width |-> img.height, height |-> img.width,
     data |-> [k \in 1..(img.width * img.height) |->
                  LET nx == (k - 1) % img.height
                      ny == (k - 1) \div img.height
                  IN  Pix(img, ny, img.height - 1 - nx)]]

\* to_luma8 of an image whose pixels are Rgb([v, v, v])
ToLuma8(img) == [img EXCEPT !.data = LumaOf(img.data)]

MinOver(S) == CHOOSE v \in S : \A u \in S : v <= u
MaxOver(S) == CHOOSE v \in S : \A u \in S : v >= u

Range(seq) == {seq[k] : k \in 1..Len(seq)}

\* Then we compute its boundaries
Boundaries(found) ==
    LET x == MinOver({p[1] : p \in found})
        y == MinOver({p[2] : p \in found})
    IN  Rect(x, y, MaxOver({p[1] - x + 1 : p \in found}),
                   MaxOver({p[2] - y + 1 : p \in found}))

\* And create an image from the pixels
GlyphImage(found, box, bounds, img) ==
    [k \in 1..(box.width * box.height) |->
        LET px == box.x + ((k - 1) % box.width)
            py == box.y + ((k - 1) \div box.width)
        IN  IF <<px, py>> \in found
            THEN Pix(img, px + bounds.x, py + bounds.y) ELSE WHITE]

GlyphOf(found, box, bounds, img) ==
    UnknownGlyph(Rect(box.x + bounds.x, box.y + bounds.y, box.width, box.height),
                 LumaOf(GlyphImage(found, box, bounds, img)))

GlyphOfPixels(found, bounds, img) == GlyphOf(found, Boundaries(found), bounds, img)

\* UnknownGlyph::from(start, bounds, image)
UnknownGlyphFrom(seed, bounds, img) ==
    GlyphOfPixels(Range(FloodFill(<<seed>>, ToLuma8(Crop(bounds, img)), CHAR_THRESHOLD)),
                  bounds, img)

\* a mutant of RemoveGlyph: the working copy is left as it is
RemoveGlyphMutant(img, bounds, glyph) == img

\* Remove black pixel which belongs to the glyph from the image
RemoveGlyph(img, bounds, glyph) ==
    [img EXCEPT !.data =
        [k \in DOMAIN img.data |->
            LET nx == ((k - 1) % img.width) - (glyph.rect.x - bounds.x)
                ny == ((k - 1) \div img.width) - (glyph.rect.y - bounds.y)
            IN  IF /\ nx \in 0..(glyph.rect.width - 1)
                   /\ ny \in 0..(glyph.rect.height - 1)
                   /\ GetPixel(glyph, nx, ny) < WHITE
                THEN WHITE ELSE img.data[k]]]

\* glyphs.push(glyph), the glyph removed from gray
Found(st, bounds, glyph) ==
    [gray |-> RemoveGlyph(st.gray, bounds, glyph),
     glyphs |-> Append(st.glyphs, glyph)]

\* Check if there is a glyph at (x, y)
FindGlyphAt(bounds, img, x, y, st) ==
    IF Pix(st.gray, x, y) <= CHAR_THRESHOLD
    THEN Found(st, bounds, UnknownGlyphFrom(<<x, y>>, bounds, img))
    ELSE st

\* for y in 0..gray.height() { ... } at the column x, from y on; st holds
\* gray and glyphs
RECURSIVE FindGlyphsColumn(_, _, _, _, _)
FindGlyphsColumn(bounds, img, x, y, st) ==
    IF y >= st.gray.height THEN st
    ELSE FindGlyphsColumn(bounds, img, x, y + 1, FindGlyphAt(bounds, img, x, y, st))

\* while x < gray.width() { ...; x += 1; }
RECURSIVE FindGlyphsLoop(_, _, _, _)
FindGlyphsLoop(bounds, img, x, st) ==
    IF x >= st.gray.width THEN st.glyphs
    ELSE FindGlyphsLoop(bounds, img, x + 1, FindGlyphsColumn(bounds, img, x, 0, st))

\* Word::find_glyphs
FindGlyphs(bounds, img) ==
    FindGlyphsLoop(bounds, img, 0,
        [gray |-> ToLuma8(Crop(bounds, img)), glyphs |-> <<>>])

\* Word::from
WordFrom(rect, img) == [rect |-> rect, glyphs |-> FindGlyphs(rect, img)]

(***************************************************************************)
(* The specification of Word::from: a word of up to MaxFindWidth columns   *)
(* and three rows, at the left edge of the page or one pixel from it, of   *)
(* pixels that are dark (CHAR_THRESHOLD), just lighter, or white.          *)
(***************************************************************************)
MaxFindWidth == 2
FindVals == {CHAR_THRESHOLD, CHAR_THRESHOLD + 1, WHITE}
FindOffsets == {0, 1}

\* the page on which img starts in column x0
FindPage(x0, img) ==
    [width |-> x0 + img.width, height |-> img.height,
     data |-> [i \in 1..((x0 + img.width) * img.height) |->
                 IF (i - 1) % (x0 + img.width) < x0 THEN WHITE
                 ELSE Pix(img, ((i - 1) % (x0 + img.width)) - x0,
                               (i - 1) \div (x0 + img.width))]]

FindInit ==
    /\ pc = "word"
    /\ \E x0 \in FindOffsets, w \in 1..MaxFindWidth :
         \E img \in Images(w, 3, FindVals) :
            /\ page_image = FindPage(x0, img)
            /\ line_words = <<[rect |-> Rect(x0, 0, w, 3), glyphs |-> <<>>]>>
    /\ line_baseline = <<>>
    /\ word_spacing = <<>> /\ overflow_checks = FALSE
    /\ lines = <<>> /\ guessed = {}
    /\ gray = NoImage
    /\ PartsIdle /\ FloodIdle /\ JoinIdle /\ DistIdle /\ GuessIdle
    /\ WordIdle /\ VerifyIdle /\ ThreadIdle /\ LatexIdle
    /\ FontIdle /\ MainIdle

\* Word::from(rect, image)
WordFromCall ==
    /\ pc = "word"
    /\ line_words' = <<WordFrom(line_words[1].rect, page_image)>>
    /\ pc' = "done"
    /\ UNCHANGED <<gray, line_baseline, partsVars, floodVars, joinVars, distVars,
                   guessVars, pageVars, threadVars,
                   latexVars, fontVars, mainVars, verifyVars,
                   wordVars>>

FindNext == WordFromCall

SpecFind == FindInit /\ [][FindNext]_vars

\* the map over the parts found in Line::find_words
WordsOf(found, bounds, img) ==
    [k \in 1..Len(found) |->
        WordFrom(Rect(bounds.x + found[k][1], bounds.y,
                      found[k][2] - found[k][1] + 1, bounds.height), img)]

\* Line::find_words
FindWords(bounds, img, ws) ==
    WordsOf(FindParts(ToLuma8(Rotate90(Crop(bounds, img))),
                      IF ws = <<>> THEN WORD_SPACING ELSE ws[1]),
            bounds, img)

Line(rect, base, words) ==
    [rect |-> rect, baseline |-> base, can_have_new_line |-> TRUE, words |-> words]

\* Line::from on every rect, for the baselines find_baseline can return
LinesOf(rects, words) ==
    {[k \in DOMAIN rects |-> Line(rects[k], b[k], words[k])] :
        b \in {f \in [DOMAIN rects -> UNION {FindBaseline(words[k]) : k \in DOMAIN rects}] :
                  \A k \in DOMAIN rects : f[k] \in FindBaseline(words[k])}}

LinesAt(rects, img, ws) ==
    LinesOf(rects, [k \in DOMAIN rects |-> FindWords(rects[k], img, ws)])

\* the map over the parts found in Page::find_lines
LineRects(found, img) ==
    [k \in 1..Len(found) |->
        Rect(0, found[k][1], img.width, found[k][2] - found[k][1] + 1)]

\* Page::find_lines: the vectors of lines it can return
FindLines(img, ws) ==
    LinesAt(LineRects(FindParts(ToLuma8(img), LINE_SPACING), img), img, ws)

\* glyph.dist.unwrap_or(f32::INFINITY)
DistOr(glyph) == IF glyph.dist = <<>> THEN INFINITY ELSE glyph.dist[1]

\* whether the u32 subtraction in Word::should_glyph_join goes below zero
JoinUnderflows(glyphs, idx) ==
    glyphs[idx].rect.x + glyphs[idx].rect.width < WORD_SPACING \div 4

\* Word::should_glyph_join(index), glyphs[idx] being self.glyphs[index - 1];
\* a subtraction that wraps gives a number above every coordinate
ShouldGlyphJoin(glyphs, idx) ==
    \/ JoinUnderflows(glyphs, idx)
    \/ glyphs[idx].rect.x + glyphs[idx].rect.width - (WORD_SPACING \div 4)
           > glyphs[idx + 1].rect.x
    \/ DistOr(glyphs[idx + 1]) > Scaled(DIST_THRESHOLD)

\* a mutant of Replace: the drain stops before the glyph at the base index
ReplaceMutant(glyphs, from, to, glyph) ==
    SubSeq(glyphs, 1, from - 1) \o <<glyph>> \o SubSeq(glyphs, to, Len(glyphs))

\* self.glyphs.drain(from..=to); self.glyphs.insert(from, joined), counting
\* from 1
Replace(glyphs, from, to, glyph) ==
    SubSeq(glyphs, 1, from - 1) \o <<glyph>> \o SubSeq(glyphs, to + 1, Len(glyphs))

\* a mutant of MergeHead: base_index is decremented only when no join is
\* tried
MergeHeadMutant(st, at, checks) ==
    IF checks /\ JoinUnderflows(st.glyphs, at)
    THEN [st EXCEPT !.panicked = TRUE]
    ELSE IF ~ShouldGlyphJoin(st.glyphs, at)
    THEN [st EXCEPT !.base_index = at]
    ELSE [st EXCEPT !.collapse_length = 1,
                    !.joined = st.glyphs[at + 1],
                    !.dist = DistOr(st.glyphs[at + 1])]

\* the head of the while loop, at being base_index - 1; the subtraction in
\* should_glyph_join can panic
MergeHead(st, at, checks) ==
    IF checks /\ JoinUnderflows(st.glyphs, at)
    THEN [st EXCEPT !.panicked = TRUE]
    ELSE IF ~ShouldGlyphJoin(st.glyphs, at)
    THEN [st EXCEPT !.base_index = at]
    ELSE [st EXCEPT !.base_index = at,
                    !.collapse_length = 1,
                    !.joined = st.glyphs[at + 1],
                    !.dist = DistOr(st.glyphs[at + 1])]

\* a mutant of Collapsed: a joined glyph as bad as the worst of its
\* constituents replaces them
CollapsedMutant(st, from, new, worst) ==
    IF DistOr(new) <= worst
    THEN [st EXCEPT !.glyphs = Replace(st.glyphs, from, st.base_index + 1, new),
                    !.base_index = st.base_index - st.collapse_length,
                    !.collapse_length = 0,
                    !.joined = new, !.dist = worst]
    ELSE [st EXCEPT !.collapse_length = st.collapse_length + 1,
                    !.joined = new, !.dist = worst]

\* If it's better replace the bad ones with the new one
Collapsed(st, from, new, worst) ==
    IF DistOr(new) < worst
    THEN [st EXCEPT !.glyphs = Replace(st.glyphs, from, st.base_index + 1, new),
                    !.base_index = st.base_index - st.collapse_length,
                    !.collapse_length = 0,
                    !.joined = new, !.dist = worst]
    ELSE [st EXCEPT !.collapse_length = st.collapse_length + 1,
                    !.joined = new, !.dist = worst]

\* Join a glyph with 1/2 other glyphs and try to guess it
Collapse(st, from, fb, ord, base) ==
    Collapsed(st, from,
              TryGuess(Join(st.joined, st.glyphs[from]), fb, ord, base, TRUE),
              Max(st.dist, DistOr(st.glyphs[from])))

\* Join glyphs that were poorly recognized: one step of the loops.  st
\* holds the locals; with collapse_length = 0 the step is the head of the
\* while loop, with collapse_length = 1 or 2 it is the body of the for
\* loop, base_index already decremented.
MergeStep(st, fb, ord, base, checks) ==
    IF st.collapse_length = 0 THEN MergeHead(st, st.base_index - 1, checks)
    ELSE IF st.collapse_length > 2 \/ st.base_index < st.collapse_length
    THEN [st EXCEPT !.collapse_length = 0]
    ELSE Collapse(st, st.base_index - st.collapse_length + 1, fb, ord, base)

\* 'outer: while base_index > 1 { ... }
RECURSIVE MergeLoop(_, _, _, _, _)
MergeLoop(st, fb, ord, base, checks) ==
    IF st.panicked \/ (st.collapse_length = 0 /\ st.base_index <= 1) THEN st
    ELSE MergeLoop(MergeStep(st, fb, ord, base, checks), fb, ord, base, checks)

\* Try to guess normally
TryGuessAll(glyphs, fb, ord, base) ==
    [k \in 1..Len(glyphs) |-> TryGuess(glyphs[k], fb, ord, base, TRUE)]

Merged(word, st) ==
    [word |-> [word EXCEPT !.glyphs = st.glyphs], panicked |-> st.panicked]

\* Word::guess
WordGuess(word, fb, ord, base, checks) ==
    Merged(word,
           MergeLoop([glyphs |-> TryGuessAll(word.glyphs, fb, ord, base),
                      base_index |-> Len(word.glyphs),
                      collapse_length |-> 0, joined |-> <<>>, dist |-> 0,
                      panicked |-> FALSE], fb, ord, base, checks))

LineGuessed(line, done) ==
    [line |-> [line EXCEPT !.words = [k \in DOMAIN done |-> done[k].word]],
     panicked |-> \E k \in DOMAIN done : done[k].panicked]

\* Line::guess: the line after the loop over its words, or a panic in one
LineGuess(line, fb, ord, checks) ==
    LineGuessed(line, [k \in 1..Len(line.words) |->
                          WordGuess(line.words[k], fb, ord, line.baseline, checks)])

(***************************************************************************)
(* The specification of Word::guess, a turn of its loops at a time: a word *)
(* of up to MaxWordWidth columns at the left edge of the page or           *)
(* WORD_SPACING / 4 pixels from it, with ink in its first and its last     *)
(* column, in its first and its third row only, so that each glyph is a    *)
(* run of ink in one of the two rows; the ink is black but for at most one *)
(* pixel, which is just lighter than CHAR_THRESHOLD; one font family       *)
(* holding one of the lists of WordFontLists; the baseline find_baseline   *)
(* gives the word.                                                         *)
(***************************************************************************)
MaxWordWidth == 4
WordRows == {0, 2}
WordOffsets == {0, WORD_SPACING \div 4}

\* the font: base, bitmap and offset of each glyph that can be rendered
WordFont ==
    { <<".", Solid(1, 1), 0>>,
      <<"-", Solid(2, 1), 0>>,
      <<"i", [width |-> 1, height |-> 3, data |-> <<0, 255, 0>>], 0>>,
      <<"l", Solid(1, 5), 0>>,
      <<"=", [width |-> 2, height |-> 3, data |-> <<0, 0, 255, 255, 0, 0>>], 0>> }

\* the glyphs a family can hold, by their bases
WordFontLists == {<<>>, <<".", "i">>, <<"l">>, <<"-", "=">>}

WordFontBases ==
    {[code \in {"cmr"} |->
        LoadFamily([k \in DOMAIN q |->
            CHOOSE g \in {KnownGlyph(f[1], "cmr", f[2], f[3]) : f \in WordFont} :
                g.base = q[k]])] : q \in WordFontLists}

\* a page of three rows, black at the pixels of ink and gray at those of
\* fringe, the word starting in column x0
WordImage(x0, w, ink, fringe) ==
    [width |-> x0 + w, height |-> 3,
     data |-> [i \in 1..((x0 + w) * 3) |->
                 LET p == <<((i - 1) % (x0 + w)) - x0, (i - 1) \div (x0 + w)>>
                 IN  IF p \in ink THEN 0
                     ELSE IF p \in fringe THEN CHAR_THRESHOLD + 1
                     ELSE WHITE]]

\* the black and the gray pixels of a word w columns wide
WordInks(w) ==
    {c \in (SUBSET ((0..(w - 1)) \X WordRows)) \X (SUBSET ((0..(w - 1)) \X WordRows)) :
        /\ Cardinality(c[2]) <= 1
        /\ c[1] \cap c[2] = {}
        /\ \A x \in {0, w - 1} : \E y \in WordRows : <<x, y>> \in c[1] \cup c[2]}

\* every glyph of the word is one detected glyph, merged with nothing
Singletons(n) == [k \in 1..n |-> [lo |-> k, hi |-> k, merges |-> 0]]

WordInit ==
    /\ pc = "word"
    /\ \E x0 \in WordOffsets, w \in 1..MaxWordWidth :
         \E ink \in WordInks(w) :
            /\ page_image = WordImage(x0, w, ink[1], ink[2])
            /\ \E found \in {WordFrom(Rect(x0, 0, w, 3), page_image)} :
                  /\ word_glyphs = found.glyphs
                  /\ baseline \in FindBaseline(<<found>>)
    /\ fontbase \in WordFontBases
    /\ order = <<"cmr">>
    /\ overflow_checks \in BOOLEAN
    /\ base_index = 0 /\ collapse_length = 0 /\ attempts = 0
    /\ runs = <<>> /\ detected = <<>> /\ step = NoStep
    /\ joined = <<>> /\ dist = <<>>
    /\ self = <<>> /\ other = <<>> /\ swapped = <<>>
    /\ offset = 0 /\ limit = 0
    /\ aligned = TRUE /\ examined = <<>> /\ calls = 0
    /\ word_spacing = <<>> /\ lines = <<>> /\ guessed = {}
    /\ gray = NoImage
    /\ PartsIdle /\ FloodIdle /\ LineIdle /\ ThreadIdle /\ LatexIdle
    /\ FontIdle /\ MainIdle /\ VerifyIdle

\* what Word::guess leaves alone
WordUnchanged ==
    UNCHANGED <<gray, self, other, swapped, offset, limit, fontbase, order,
                baseline, aligned, examined, calls, page_image, word_spacing,
                overflow_checks, lines, guessed, partsVars, floodVars,
                lineVars, threadVars, latexVars, fontVars, mainVars,
                verifyVars>>

\* the locals of Word::guess, as the merge loop's operators take them
Locals ==
    [glyphs |-> word_glyphs, base_index |-> base_index,
     collapse_length |-> collapse_length, joined |-> joined,
     dist |-> IF dist = <<>> THEN 0 ELSE dist[1], panicked |-> FALSE]

\* for glyph in &mut self.glyphs { glyph.try_guess(fontbase, baseline, true); }
\* let mut base_index: usize = self.glyphs.len();
WordGuessBegin ==
    /\ pc = "word"
    /\ word_glyphs' = TryGuessAll(word_glyphs, fontbase, order, baseline)
    /\ base_index' = Len(word_glyphs)
    /\ detected' = word_glyphs'
    /\ runs' = Singletons(Len(word_glyphs))
    /\ pc' = "merge"
    /\ UNCHANGED <<collapse_length, attempts, step, joined, dist>>
    /\ WordUnchanged

\* 'outer: while base_index > 1 { base_index -= 1;
\*     if !self.should_glyph_join(base_index) { continue 'outer; }
\*     let mut joined = ...; let mut dist = ...;
WordLoopHead ==
    /\ pc = "merge" /\ collapse_length = 0 /\ base_index > 1
    /\ \E st \in {MergeHead(Locals, base_index - 1, overflow_checks)} :
          /\ pc' = IF st.panicked THEN "panic" ELSE "merge"
          /\ base_index' = st.base_index
          /\ collapse_length' = st.collapse_length
          /\ joined' = st.joined
          /\ dist' = IF st.collapse_length = 1 THEN <<st.dist>> ELSE dist
          /\ step' = [kind |-> IF st.panicked THEN "panic" ELSE "head",
                      at |-> base_index - 1, before |-> word_glyphs,
                      new |-> <<>>, accepted |-> st.collapse_length = 1]
    /\ UNCHANGED <<word_glyphs, attempts, runs, detected>>
    /\ WordUnchanged

\* the runs once the glyphs from..to are replaced by their join
RunsMerged(from, to) ==
    Replace(runs, from, to,
            [lo |-> runs[from].lo, hi |-> runs[to].hi,
             merges |-> 1 + runs[from].merges + runs[to].merges
                          + (IF to - from = 2 THEN runs[from + 1].merges ELSE 0)])

\* the body of for collapse_length in 1..=2 once base_index >=
\* collapse_length: the join, its try_guess and the replacement
WordCollapse ==
    /\ pc = "merge" /\ collapse_length \in 1..2
    /\ base_index >= collapse_length
    /\ \E st \in {Collapse(Locals, base_index - collapse_length + 1,
                            fontbase, order, baseline)} :
          /\ word_glyphs' = st.glyphs
          /\ base_index' = st.base_index
          /\ collapse_length' = st.collapse_length
          /\ joined' = st.joined
          /\ dist' = <<st.dist>>
          /\ step' = [kind |-> "attempt",
                      at |-> base_index - collapse_length + 1,
                      before |-> word_glyphs, new |-> <<st.joined>>,
                      accepted |-> st.glyphs # word_glyphs]
          /\ runs' = IF st.glyphs # word_glyphs
                     THEN RunsMerged(base_index - collapse_length + 1,
                                     base_index + 1)
                     ELSE runs
    /\ attempts' = attempts + 1
    /\ UNCHANGED <<pc, detected>>
    /\ WordUnchanged

\* if base_index < collapse_length { continue 'outer; }, and the end of the
\* for loop
WordContinue ==
    /\ pc = "merge" /\ collapse_length > 0
    /\ collapse_length > 2 \/ base_index < collapse_length
    /\ collapse_length' = 0
    /\ step' = [kind |-> "continue", at |-> base_index, before |-> word_glyphs,
                new |-> <<>>, accepted |-> FALSE]
    /\ UNCHANGED <<pc, word_glyphs, base_index, attempts, runs, detected,
                   joined, dist>>
    /\ WordUnchanged

\* the while loop is left
WordGuessEnd ==
    /\ pc = "merge" /\ collapse_length = 0 /\ base_index <= 1
    /\ pc' = "done"
    /\ UNCHANGED <<wordVars, joined, dist>>
    /\ WordUnchanged

WordNext ==
    \/ WordGuessBegin
    \/ WordLoopHead
    \/ WordCollapse
    \/ WordContinue
    \/ WordGuessEnd

SpecWord == WordInit /\ [][WordNext]_vars

(***************************************************************************)
(* The specification of a page: a white page on which one bitmap of one or *)
(* two pixels a side is rendered once, or twice side by side, or twice one *)
(* below the other; the FontBase holds that bitmap as its only glyph "A".  *)
(***************************************************************************)
MaxMargin == 1
PageSides == {1, 2}
PageVals == {0, 255}
PageOffsets == {-1, 0, 1}
Seconds == {"none", "right", "far right", "below"}

Bitmaps ==
    {img \in UNION {Images(w, h, PageVals) : w \in PageSides, h \in PageSides} :
        Tight(UnknownGlyph(Rect(0, 0, img.width, img.height), img.data))}

\* where the renderings are: the first at (px, py), the second next to it
\* or on a line of its own
Placements(bm, px, py, second) ==
    {<<px, py>>} \cup
    (CASE second = "none" -> {}
       [] second = "right" -> {<<px + bm.width + 1, py>>}
       [] second = "far right" -> {<<px + bm.width + 2, py>>}
       [] second = "below" -> {<<px, py + bm.height + LINE_SPACING + 1>>})

\* the page: white but for the renderings, with foot white rows under them
PageOf(bm, at, foot) ==
    LET width == MaxOver({p[1] + bm.width : p \in at})
        height == MaxOver({p[2] + bm.height : p \in at}) + foot
    IN  [width |-> width, height |-> height,
         data |-> [k \in 1..(width * height) |->
            LET x == (k - 1) % width
                y == (k - 1) \div width
                on == {p \in at : /\ x - p[1] \in 0..(bm.width - 1)
                                  /\ y - p[2] \in 0..(bm.height - 1)}
            IN  IF on = {} THEN WHITE
                ELSE LET p == CHOOSE q \in on : TRUE
                     IN  Pix(bm, x - p[1], y - p[2])]]

PageInit ==
    /\ pc = "input"
    /\ \E bm \in Bitmaps :
          /\ page_image \in {PageOf(bm, Placements(bm, px, py, second), foot) :
                           px \in 0..MaxMargin, py \in 0..MaxMargin,
                           second \in Seconds, foot \in {0, LINE_SPACING + 1}}
          /\ fontbase \in {[code \in {"cmr"} |->
                              LoadFamily(<<KnownGlyph("A", code, bm, offs)>>)] :
                              offs \in PageOffsets}
    /\ order = <<"cmr">>
    /\ word_spacing \in {<<>>, <<1>>}
    /\ overflow_checks \in BOOLEAN
    /\ lines = <<>>
    /\ guessed = {}
    /\ baseline = 0 /\ aligned = TRUE /\ examined = <<>> /\ calls = 0
    /\ gray = NoImage
    /\ PartsIdle /\ FloodIdle /\ JoinIdle /\ DistIdle /\ LineIdle
    /\ WordIdle /\ VerifyIdle /\ ThreadIdle /\ LatexIdle /\ FontIdle
    /\ MainIdle

\* Page::from(image, word_spacing)
PageFrom ==
    /\ pc = "input"
    /\ lines' \in FindLines(page_image, word_spacing)
    /\ pc' = "page"
    /\ UNCHANGED <<gray, page_image, word_spacing, overflow_checks, guessed,
                   partsVars, floodVars, joinVars, distVars, guessVars,
                   lineVars, threadVars, latexVars, fontVars,
                   mainVars, verifyVars, wordVars>>

\* Page::guess: the thread of one line runs line.guess(fontbase); a panic
\* in it is raised again by handle.join().unwrap()
PageGuess(k) ==
    /\ pc = "page"
    /\ k \in (1..Len(lines)) \ guessed
    /\ \E out \in {LineGuess(lines[k], fontbase, order, overflow_checks)} :
          /\ lines' = [lines EXCEPT ![k] = out.line]
          /\ guessed' = guessed \cup {k}
          /\ pc' = IF out.panicked THEN "panic"
                   ELSE IF guessed' = 1..Len(lines) THEN "done" ELSE "page"
    /\ UNCHANGED <<gray, page_image, word_spacing, overflow_checks,
                   partsVars, floodVars, joinVars, distVars, guessVars,
                   lineVars, threadVars, latexVars, fontVars,
                   mainVars, verifyVars, wordVars>>

PageNext == PageFrom \/ \E k \in 1..Len(lines) : PageGuess(k)

SpecPage == PageInit /\ [][PageNext]_vars

(***************************************************************************)
(* fonts/fonts.rs: FontBase::try_from.  A glyph file is missing (read is   *)
(* "err") or read; what was read decodes to a Vec<KnownGlyph> or, corrupt, *)
(* does not (decoded is empty).  pc is "input" before try_from, "families" *)
(* in its loop over Code::all() and "done" after it; outcome tells what it *)
(* returned.                                                               *)
(***************************************************************************)
\* the first of Code::all() and of Size::all()
FontCodes == <<"cmr", "lmr">>
FontSizes == <<"normalsize", "small">>

Missing == [read |-> "err", decoded |-> <<>>]
Corrupt == [read |-> "ok", decoded |-> <<>>]
Valid(glyphs) == [read |-> "ok", decoded |-> <<glyphs>>]

\* as GetFamily, a file that cannot be read failing the load
GetFamilyMutant(file) ==
    IF file.read = "ok" /\ file.decoded # <<>>
    THEN [ok |-> TRUE, glyphs |-> file.decoded[1]]
    ELSE [ok |-> FALSE, glyphs |-> <<>>]

\* FontBase::get_family: Ok(glyphs), or the error of bitcode::decode
GetFamily(file) ==
    IF file.read = "ok"
    THEN IF file.decoded # <<>>
         THEN [ok |-> TRUE, glyphs |-> file.decoded[1]]
         ELSE [ok |-> FALSE, glyphs |-> <<>>]
    ELSE [ok |-> TRUE, glyphs |-> <<>>]

\* the loop of load_family over Size::all() from the k-th size on: the
\* glyphs read so far, or the first error of get_family(code, size)?
RECURSIVE FamilyGlyphs(_, _, _, _)
FamilyGlyphs(files, code, k, acc) ==
    IF k > Len(FontSizes) THEN [ok |-> TRUE, glyphs |-> acc]
    ELSE IF ~GetFamily(files[<<code, FontSizes[k]>>]).ok
         THEN [ok |-> FALSE, glyphs |-> acc]
         ELSE FamilyGlyphs(files, code, k + 1,
                           acc \o GetFamily(files[<<code, FontSizes[k]>>]).glyphs)

\* the files a (code, size) can have: none, a corrupt one, or one of up to
\* two glyphs of the font
FontFiles(code) ==
    {Missing, Corrupt, Valid(<<>>)} \cup
    {Valid(<<KnownGlyph("A", code, Solid(2, 2), 0)>>),
     Valid(<<KnownGlyph("A", code, Solid(2, 2), 0),
             KnownGlyph("l", code, Solid(1, 2), 0)>>)}

\* the files under the config directory
FontDirs ==
    {f \in [Range(FontCodes) \X Range(FontSizes) ->
               UNION {FontFiles(code) : code \in Range(FontCodes)}] :
        \A code \in Range(FontCodes), size \in Range(FontSizes) :
            f[<<code, size>>] \in FontFiles(code)}

FontsInit ==
    /\ pc = "input"
    /\ font_files \in FontDirs
    /\ verbose \in BOOLEAN
    /\ fontbase = <<>>
    /\ outcome = "none"
    /\ order = <<>> /\ baseline = 0 /\ aligned = TRUE /\ examined = <<>> /\ calls = 0
    /\ threads = 0 /\ handles = <<>> /\ tasks = <<>>
    /\ gray = NoImage
    /\ PartsIdle /\ FloodIdle /\ JoinIdle /\ DistIdle /\ PageIdle
    /\ WordIdle /\ VerifyIdle /\ LineIdle /\ MainIdle /\ LatexIdle

\* a call of log(..)? in try_from or load_family: it succeeds, or the
\* function returns its error
FontLogged(next, result) ==
    \/ pc' = next /\ outcome' = result
    \/ verbose /\ pc' = "done" /\ outcome' = "Err(log)"

\* if args.verbose { log("LOADING FONTS\n", None, None, "1m")?; }
\* let mut fontbase = FontBase::new();
TryFromBegin ==
    /\ pc = "input"
    /\ FontLogged("families", outcome)
    /\ UNCHANGED <<gray, fontbase, order, baseline, aligned, examined, calls,
                   threads, verbose, handles, tasks, font_files, partsVars,
                   floodVars, joinVars, distVars, pageVars, lineVars, latexVars,
                   mainVars, verifyVars, wordVars>>

\* fontbase.glyphs.insert(code, Self::load_family(code, args)?) for the next
\* code; load_family logs before and after reading the files
LoadFamilyStep ==
    /\ pc = "families"
    /\ Cardinality(DOMAIN fontbase) < Len(FontCodes)
    /\ \E code \in {FontCodes[Cardinality(DOMAIN fontbase) + 1]} :
       \E read \in {FamilyGlyphs(font_files, code, 1, <<>>)} :
          \/ /\ verbose
             /\ pc' = "done" /\ outcome' = "Err(log)" /\ fontbase' = fontbase
          \/ /\ ~read.ok
             /\ pc' = "done" /\ outcome' = "Err(decode)" /\ fontbase' = fontbase
          \/ /\ read.ok
             /\ pc' = pc /\ outcome' = outcome
             /\ fontbase' = [c \in DOMAIN fontbase \cup {code} |->
                               IF c = code THEN LoadFamily(read.glyphs)
                               ELSE fontbase[c]]
    /\ UNCHANGED <<gray, order, baseline, aligned, examined, calls,
                   threads, verbose, handles, tasks, font_files, partsVars,
                   floodVars, joinVars, distVars, pageVars, lineVars, latexVars,
                   mainVars, verifyVars, wordVars>>

\* if args.verbose { log("LOADED FONTS", ..)?; write_all(b"\n")?; } Ok(fontbase)
TryFromEnd ==
    /\ pc = "families"
    /\ Cardinality(DOMAIN fontbase) = Len(FontCodes)
    /\ FontLogged("done", "Ok")
    /\ UNCHANGED <<gray, fontbase, order, baseline, aligned, examined, calls,
                   threads, verbose, handles, tasks, font_files, partsVars,
                   floodVars, joinVars, distVars, pageVars, lineVars, latexVars,
                   mainVars, verifyVars, wordVars>>

FontsNext == TryFromBegin \/ LoadFamilyStep \/ TryFromEnd

SpecFonts == FontsInit /\ [][FontsNext]_vars

(***************************************************************************)
(* main.rs and bin/fonts.rs: the two binaries.  process() of main.rs loads *)
(* the Pdf, guesses it (the page count, the FontBase, then the pages),     *)
(* writes the output and the debug image; each step but FontBase::try_from *)
(* is taken here by its result alone, Ok or the Err the ? returns.  main   *)
(* of bin/fonts.rs calls create_family for every code of args.codes.  pc   *)
(* is "load", "pages_number", then "input" .. "done" of try_from, "pages", *)
(* "output", "debug", and "ended" when process has returned; "create" in   *)
(* the loop of bin/fonts.rs; "exited" when the process has ended.          *)
(***************************************************************************)
MaxCodes == 2

MainInit ==
    /\ program \in {"pdf2latex", "fonts"}
    /\ IF program = "pdf2latex"
       THEN /\ pc = "load"
            /\ font_files \in FontDirs
            /\ codes = <<>>
       ELSE /\ pc = "create"
            /\ font_files = <<>>
            /\ codes \in SeqsUpTo(Range(FontCodes), MaxCodes)
    /\ verbose \in BOOLEAN
    /\ errors = <<>> /\ stderr = <<>> /\ exit_status = <<>>
    /\ fontbase = <<>>
    /\ outcome = "none"
    /\ order = <<>> /\ baseline = 0 /\ aligned = TRUE /\ examined = <<>> /\ calls = 0
    /\ threads = 0 /\ handles = <<>> /\ tasks = <<>>
    /\ gray = NoImage
    /\ PartsIdle /\ FloodIdle /\ JoinIdle /\ DistIdle /\ PageIdle
    /\ WordIdle /\ VerifyIdle /\ LineIdle /\ LatexIdle

\* a step of process() that ends with ?: it goes on, or process returns
\* the error
Fallible(at, next, err) ==
    /\ program = "pdf2latex"
    /\ pc = at
    /\ \/ pc' = next /\ errors' = errors
       \/ pc' = "ended" /\ errors' = Append(errors, err)
    /\ UNCHANGED <<gray, verbose, outcome, threads, handles, tasks, program, codes,
                   stderr, exit_status, font_files, partsVars, floodVars, joinVars,
                   distVars, guessVars, pageVars, lineVars, latexVars,
                   verifyVars, wordVars>>

\* let mut pdf = Pdf::load(&args.input)?;
PdfLoad == Fallible("load", "pages_number", "Err(load)")

\* Pdf::guess up to FontBase::try_from: pdf_pages_number(&args.input)? and
\* the check of args.pages
PagesNumber == Fallible("pages_number", "input", "Err(pages)")

\* let fontbase = FontBase::try_from(args)?;
FontBaseLoaded ==
    /\ program = "pdf2latex"
    /\ pc = "done"
    /\ IF outcome = "Ok"
       THEN pc' = "pages" /\ errors' = errors
       ELSE pc' = "ended" /\ errors' = Append(errors, outcome)
    /\ UNCHANGED <<gray, verbose, outcome, threads, handles, tasks, program, codes,
                   stderr, exit_status, font_files, partsVars, floodVars, joinVars,
                   distVars, guessVars, pageVars, lineVars, latexVars,
                   verifyVars, wordVars>>

\* the rest of Pdf::guess: for every page log(..)?, pdf_to_images(..)?,
\* page.guess(..)?, then self.verify(..)? and write_all(..)?
PagesGuessed == Fallible("pages", "output", "Err(guess)")

\* LaTeX::from(&pdf).save(output)? or println!
Output == Fallible("output", "debug", "Err(save)")

\* pdf.pages[0].debug_image().save("./test/debug.png")?; Ok(())
Debug == Fallible("debug", "ended", "Err(debug)")

\* main of main.rs: if let Err(err) = process(..) { eprintln!("{err}"); }
\* and main returns
MainEnd ==
    /\ program = "pdf2latex"
    /\ pc = "ended"
    /\ stderr' = stderr \o errors
    /\ exit_status' = <<0>>
    /\ pc' = "exited"
    /\ UNCHANGED <<gray, verbose, outcome, threads, handles, tasks, program, codes,
                   errors, font_files, partsVars, floodVars, joinVars,
                   distVars, guessVars, pageVars, lineVars, latexVars,
                   verifyVars, wordVars>>

\* main of bin/fonts.rs: for &code in &args.codes {
\*     if let Err(e) = FontBase::create_family(code, &args) { eprintln!("{e}"); } }
CreateFamily ==
    /\ program = "fonts"
    /\ pc = "create"
    /\ codes # <<>>
    /\ codes' = Tail(codes)
    /\ \/ UNCHANGED <<errors, stderr, verifyVars, wordVars>>
       \/ /\ errors' = Append(errors, "Err(create)")
          /\ stderr' = Append(stderr, "Err(create)")
    /\ UNCHANGED <<pc, gray, verbose, outcome, threads, handles, tasks, program,
                   exit_status, font_files, partsVars, floodVars, joinVars,
                   distVars, guessVars, pageVars, lineVars, latexVars,
                   verifyVars, wordVars>>

\* main of bin/fonts.rs returns after the loop
FontsEnd ==
    /\ program = "fonts"
    /\ pc = "create"
    /\ codes = <<>>
    /\ exit_status' = <<0>>
    /\ pc' = "exited"
    /\ UNCHANGED <<gray, verbose, outcome, threads, handles, tasks, program, codes,
                   errors, stderr, font_files, partsVars, floodVars, joinVars,
                   distVars, guessVars, pageVars, lineVars, latexVars,
                   verifyVars, wordVars>>

MainNext ==
    \/ PdfLoad
    \/ PagesNumber
    \/ TryFromBegin
    \/ LoadFamilyStep
    \/ TryFromEnd
    \/ FontBaseLoaded
    \/ PagesGuessed
    \/ Output
    \/ Debug
    \/ MainEnd
    \/ CreateFamily
    \/ FontsEnd

SpecMain == MainInit /\ [][MainNext]_vars

(***************************************************************************)
(* pdf/page.rs: Page::get_latex, as far as the marker after each line goes *)
(* ("" for none); the text of the line itself is left out.                 *)
(***************************************************************************)
\* words.last().and_then(|word| word.glyphs.last()).map(|g| g.rect.width + g.rect.x)
GetRightMargin(line) ==
    IF line.words = <<>> THEN <<>>
    ELSE LET glyphs == line.words[Len(line.words)].glyphs
         IN  IF glyphs = <<>> THEN <<>>
             ELSE <<glyphs[Len(glyphs)].rect.width + glyphs[Len(glyphs)].rect.x>>

\* words.first().and_then(|word| word.glyphs.first()).map(|g| g.rect.x)
GetLeftMargin(line) ==
    IF line.words = <<>> THEN <<>>
    ELSE LET glyphs == line.words[1].glyphs
         IN  IF glyphs = <<>> THEN <<>> ELSE <<glyphs[1].rect.x>>

\* filter_map over the Options of the lines from the k-th on
RECURSIVE FilterMap(_, _)
FilterMap(options, k) ==
    IF k > Len(options) THEN <<>> ELSE options[k] \o FilterMap(options, k + 1)

\* Page::get_right_margin_mode: the values it can return
GetRightMarginMode(page_lines) ==
    {r.mode : r \in MostFrequent(
        FilterMap([k \in DOMAIN page_lines |-> GetRightMargin(page_lines[k])], 1), 0)}

\* Page::get_left_margin_mode: the values it can return
GetLeftMarginMode(page_lines) ==
    {r.mode : r \in MostFrequent(
        FilterMap([k \in DOMAIN page_lines |-> GetLeftMargin(page_lines[k])], 1), 0)}

\* margin < right_margin_mode - 10 in u32 without overflow checks: below 10
\* the subtraction wraps to a number above every margin
ShortOf(margin, mode) == IF mode < 10 THEN TRUE ELSE margin < mode - 10

\* the newline of the line i, counting from 1
Newline(page_lines, i, right_margin_mode, left_margin_mode) ==
    IF /\ GetRightMargin(page_lines[i]) # <<>>
       /\ ShortOf(GetRightMargin(page_lines[i])[1], right_margin_mode)
       /\ page_lines[i].can_have_new_line
    THEN IF /\ i + 1 <= Len(page_lines)
            /\ GetLeftMargin(page_lines[i + 1]) # <<>>
            /\ GetLeftMargin(page_lines[i + 1])[1] < left_margin_mode + 10
         THEN "\\\\"
         ELSE "\n"
    ELSE ""

\* whether get_latex panics in a build with overflow checks: self.lines.get(i - 1)
\* subtracts in usize, and i is 0 for the first line (right_margin_mode - 10
\* comes after it)
LatexOverflows(page_lines) == page_lines # <<>>

\* the pages get_latex is called on: up to MaxLatexLines lines, each with no
\* glyph or with one glyph from its left to its right margin
MaxLatexLines == 3
LeftMargins == {1, 12}
RightMargins == {5, 29, 30, 40}

LatexLine(k, left, right, can) ==
    [Line(Rect(0, 2 * k, right, 1), 0,
          <<[rect |-> Rect(left, 2 * k, right - left, 1),
             glyphs |-> <<UnknownGlyph(Rect(left, 2 * k, right - left, 1),
                                       Solid(right - left, 1).data)>>]>>)
     EXCEPT !.can_have_new_line = can]

\* a line with no glyph, or the margins and can_have_new_line of a line
LineShapes ==
    {<<>>} \cup {t \in LeftMargins \X RightMargins \X BOOLEAN : t[1] < t[2]}

LatexLines(shapes) ==
    [k \in DOMAIN shapes |->
        IF shapes[k] = <<>> THEN Line(Rect(0, 2 * k, 1, 1), 0, <<>>)
        ELSE LatexLine(k, shapes[k][1], shapes[k][2], shapes[k][3])]

LatexInit ==
    /\ pc = "input"
    /\ \E n \in 0..MaxLatexLines :
          \E shapes \in [1..n -> LineShapes] : lines = LatexLines(shapes)
    /\ overflow_checks \in BOOLEAN
    /\ latex = <<>>
    /\ page_image = NoImage /\ word_spacing = <<>> /\ guessed = {}
    /\ gray = NoImage
    /\ PartsIdle /\ FloodIdle /\ JoinIdle /\ DistIdle /\ GuessIdle
    /\ WordIdle /\ VerifyIdle /\ LineIdle /\ MainIdle /\ ThreadIdle
    /\ FontIdle

\* page.get_latex()
GetLatex ==
    /\ pc = "input"
    /\ \E right_margin_mode \in GetRightMarginMode(lines),
          left_margin_mode \in GetLeftMarginMode(lines) :
          IF overflow_checks /\ LatexOverflows(lines)
          THEN pc' = "panic" /\ latex' = latex
          ELSE /\ pc' = "done"
               /\ latex' = <<[right_margin_mode |-> right_margin_mode,
                               left_margin_mode |-> left_margin_mode,
                               newline |-> [i \in DOMAIN lines |->
                                   Newline(lines, i, right_margin_mode,
                                           left_margin_mode)]]>>
    /\ UNCHANGED <<gray, page_image, word_spacing, overflow_checks, lines, guessed,
                   partsVars, floodVars, joinVars, distVars, guessVars, lineVars,
                   threadVars, fontVars, mainVars,
                   verifyVars, wordVars>>

LatexNext == GetLatex

SpecLatex == LatexInit /\ [][LatexNext]_vars

(***************************************************************************)
(* pdf/page.rs: Page::guess with its threads.  The closure given to        *)
(* std::thread::scope spawns one thread per line, joins the oldest handle  *)
(* when args.threads handles are held, logs when args.verbose, and joins   *)
(* the handles left; the scope itself waits for every thread it spawned    *)
(* before Page::guess returns.  A thread runs Line::guess, one step a      *)
(* word.  pc is the position of the closure:                               *)
(*   "page"  before Page::guess      "loop"  at the head of the for loop   *)
(*   "pushed" after handles.push     "log"   before the progress log       *)
(*   "rest"  in the final joins      "last"  before the final log          *)
(*   "exit"  the closure has ended   "done"  Page::guess has returned      *)
(*   "panic" Page::guess has panicked                                      *)
(***************************************************************************)
MaxLines == 3
MaxThreads == 2

\* a thread of the scope: the line it guesses, the word it is at, whether
\* it is "running", "finished" or "panicked", and whether it was joined
Task(k) == [line |-> k, word |-> 1, state |-> "running", joined |-> FALSE]

\* for line in &mut self.lines: the line of the next iteration
NextLine(spawned) == Len(spawned) + 1

\* as Throttled, joining only above args.threads handles
ThrottledMutant(held, limit_) == Len(held) > limit_

\* if handles.len() >= args.threads
Throttled(held, limit_) == Len(held) >= limit_

\* as Barrier, without waiting for the threads
BarrierMutant(spawned) == TRUE

\* std::thread::scope returns when every thread spawned in it has ended
Barrier(spawned) == \A i \in DOMAIN spawned : spawned[i].state # "running"

\* as TaskLine, every thread writing the first line
TaskLineMutant(spawned, i) == 1

\* scope.spawn(move || line.guess(fontbase)): the line the thread owns
TaskLine(spawned, i) == spawned[i].line

\* the page of the threads: n lines, each the bitmap once or twice
ThreadPlacements(bm, seconds) ==
    UNION {Placements(bm, 0, (k - 1) * (bm.height + LINE_SPACING + 1), seconds[k]) :
              k \in DOMAIN seconds}

ThreadSeconds == {"none", "far right"}

ThreadsInit ==
    /\ pc = "input"
    /\ \E bm \in {Solid(1, 1)} :
          /\ page_image \in {PageOf(bm, ThreadPlacements(bm, seconds), 0) :
                                seconds \in UNION {[1..n -> ThreadSeconds] : n \in 1..MaxLines}}
                            \cup {[width |-> 1, height |-> 1, data |-> Blank(1, 1)]}
          /\ fontbase = [code \in {"cmr"} |-> LoadFamily(<<KnownGlyph("A", code, bm, 0)>>)]
    /\ order = <<"cmr">>
    /\ word_spacing \in {<<>>, <<1>>}
    /\ overflow_checks \in BOOLEAN
    /\ lines = <<>>
    /\ guessed = {}
    /\ threads \in 0..MaxThreads
    /\ verbose \in BOOLEAN
    /\ handles = <<>>
    /\ tasks = <<>>
    /\ outcome = "none"
    /\ baseline = 0 /\ aligned = TRUE /\ examined = <<>> /\ calls = 0
    /\ gray = NoImage
    /\ PartsIdle /\ FloodIdle /\ JoinIdle /\ DistIdle /\ LineIdle
    /\ WordIdle /\ VerifyIdle /\ LatexIdle /\ FontIdle /\ MainIdle

\* a call of log(..)? or of write_all(..)?: it succeeds, or the closure
\* ends with its error
Logged(next) ==
    \/ pc' = next /\ outcome' = outcome
    \/ verbose /\ pc' = "exit" /\ outcome' = "Err"

\* if args.verbose { log("converting text", Some(0.), None, "s")?; }
GuessBegin ==
    /\ pc = "page"
    /\ Logged("loop")
    /\ UNCHANGED <<gray, threads, verbose, handles, tasks, partsVars, floodVars,
                   joinVars, distVars, guessVars, pageVars, lineVars,
                   latexVars, fontVars, mainVars, verifyVars,
                   wordVars>>

\* let handle = scope.spawn(..); handles.push(handle); after the last
\* line the loop ends
Spawn ==
    /\ pc = "loop"
    /\ IF NextLine(tasks) <= Len(lines)
       THEN /\ tasks' = Append(tasks, Task(NextLine(tasks)))
            /\ handles' = Append(handles, Len(tasks) + 1)
            /\ pc' = "pushed"
       ELSE /\ pc' = "rest"
            /\ UNCHANGED <<tasks, handles, latexVars, fontVars, mainVars, verifyVars,
                   wordVars>>
    /\ UNCHANGED <<gray, threads, verbose, outcome, partsVars, floodVars,
                   joinVars, distVars, guessVars, pageVars, lineVars,
                   latexVars, fontVars, mainVars, verifyVars,
                   wordVars>>

\* handle.join().unwrap() on the first handle: waits for the thread to end
\* and panics when the thread has panicked
JoinFirst(next) ==
    /\ tasks[Head(handles)].state # "running"
    /\ handles' = Tail(handles)
    /\ tasks' = [tasks EXCEPT ![Head(handles)].joined = TRUE]
    /\ IF tasks[Head(handles)].state = "panicked"
       THEN pc' = "exit" /\ outcome' = "panic"
       ELSE pc' = next /\ outcome' = outcome

\* if handles.len() >= args.threads { handles.remove(0).join().unwrap(); }
Throttle ==
    /\ pc = "pushed"
    /\ IF Throttled(handles, threads)
       THEN JoinFirst("log")
       ELSE pc' = "log" /\ UNCHANGED <<handles, tasks, outcome, latexVars, fontVars, mainVars,
                   verifyVars, wordVars>>
    /\ UNCHANGED <<gray, threads, verbose, partsVars, floodVars,
                   joinVars, distVars, guessVars, pageVars, lineVars,
                   latexVars, fontVars, mainVars, verifyVars,
                   wordVars>>

\* if args.verbose { log("converting text", Some(progress), None, "u")?; }
LogProgress ==
    /\ pc = "log"
    /\ Logged("loop")
    /\ UNCHANGED <<gray, threads, verbose, handles, tasks, partsVars, floodVars,
                   joinVars, distVars, guessVars, pageVars, lineVars,
                   latexVars, fontVars, mainVars, verifyVars,
                   wordVars>>

\* for handle in handles { handle.join().unwrap(); }
JoinRest ==
    /\ pc = "rest"
    /\ IF handles # <<>>
       THEN JoinFirst("rest")
       ELSE pc' = "last" /\ UNCHANGED <<handles, tasks, outcome, latexVars, fontVars, mainVars,
                   verifyVars, wordVars>>
    /\ UNCHANGED <<gray, threads, verbose, partsVars, floodVars,
                   joinVars, distVars, guessVars, pageVars, lineVars,
                   latexVars, fontVars, mainVars, verifyVars,
                   wordVars>>

\* if args.verbose { log(..)?; std::io::stdout().write_all(b"\n")?; } Ok(())
LogLast ==
    /\ pc = "last"
    /\ \/ pc' = "exit" /\ outcome' = "Ok"
       \/ verbose /\ pc' = "exit" /\ outcome' = "Err"
    /\ UNCHANGED <<gray, threads, verbose, handles, tasks, partsVars, floodVars,
                   joinVars, distVars, guessVars, pageVars, lineVars,
                   latexVars, fontVars, mainVars, verifyVars,
                   wordVars>>

\* the end of std::thread::scope: every thread is joined, and a panic of the
\* closure or of a thread that was not joined by hand is raised again
ScopeExit ==
    /\ pc = "exit"
    /\ Barrier(tasks)
    /\ tasks' = [i \in DOMAIN tasks |-> [tasks[i] EXCEPT !.joined = TRUE]]
    /\ handles' = <<>>
    /\ IF outcome = "panic" \/ \E i \in DOMAIN tasks : tasks[i].state = "panicked"
       THEN pc' = "panic" /\ outcome' = "panic"
       ELSE pc' = "done" /\ outcome' = outcome
    /\ UNCHANGED <<gray, threads, verbose, partsVars, floodVars,
                   joinVars, distVars, guessVars, pageVars, lineVars,
                   latexVars, fontVars, mainVars, verifyVars,
                   wordVars>>

\* one step of the thread i: word.guess(fontbase, self.baseline) on the
\* next word of its line, or the end of Line::guess
TaskStep(i) ==
    /\ tasks[i].state = "running"
    /\ \E k \in {TaskLine(tasks, i)} :
          IF tasks[i].word > Len(lines[k].words)
          THEN /\ tasks' = [tasks EXCEPT ![i].state = "finished"]
               /\ lines' = lines
          ELSE \E out \in {WordGuess(lines[k].words[tasks[i].word], fontbase, order,
                                     lines[k].baseline, overflow_checks)} :
                  /\ lines' = [lines EXCEPT ![k].words[tasks[i].word] = out.word]
                  /\ tasks' = [tasks EXCEPT ![i] =
                                  IF out.panicked
                                  THEN [@ EXCEPT !.state = "panicked"]
                                  ELSE [@ EXCEPT !.word = @ + 1]]
    /\ UNCHANGED <<pc, gray, page_image, word_spacing, overflow_checks, guessed,
                   threads, verbose, handles, outcome, partsVars, floodVars,
                   joinVars, distVars, guessVars, lineVars,
                   latexVars, fontVars, mainVars, verifyVars,
                   wordVars>>

ThreadsNext ==
    \/ PageFrom
    \/ GuessBegin
    \/ Spawn
    \/ Throttle
    \/ LogProgress
    \/ JoinRest
    \/ LogLast
    \/ ScopeExit
    \/ \E i \in DOMAIN tasks : TaskStep(i)

SpecThreads == ThreadsInit /\ [][ThreadsNext]_vars

(***************************************************************************)
(* pdf/page.rs: Page::verify, the pass over a guessed page: the trailing   *)
(* dashes, the matrixes and the formulas, which python/recognize_formula.sh *)
(* is run on in threads of their own.  Lines are counted from 1 here and   *)
(* from 0 in the program.                                                  *)
(***************************************************************************)
\* last_char == Some(Some('-')), last_char being the last char of
\* get_content of the last word (a glyph with no guess gives U+2584)
EndsWithDash(line) ==
    /\ line.words # <<>>
    /\ line.words[Len(line.words)].glyphs # <<>>
    /\ \E glyph \in {line.words[Len(line.words)].glyphs[
                         Len(line.words[Len(line.words)].glyphs)]} :
          glyph.guess # <<>> /\ glyph.guess[1].base = "-"

\* glyphs.pop() on the last word, can_have_new_line = false
DashPopped(line) ==
    [line EXCEPT !.can_have_new_line = FALSE,
                 !.words[Len(line.words)].glyphs =
                     SubSeq(@, 1, Len(@) - 1)]

\* last_word.glyphs.extend(word.glyphs)
DashExtended(line, word) ==
    [line EXCEPT !.words[Len(line.words)].glyphs = @ \o word.glyphs]

\* Page::handle_trailing_dash_verify(line_index)
HandleTrailingDashVerify(page_lines, i) ==
    IF ~EndsWithDash(page_lines[i]) THEN page_lines
    ELSE IF i + 1 <= Len(page_lines) /\ page_lines[i + 1].words # <<>>
    THEN [page_lines EXCEPT
             ![i] = DashExtended(DashPopped(@), Head(page_lines[i + 1].words)),
             ![i + 1].words = Tail(@)]
    ELSE [page_lines EXCEPT ![i] = DashPopped(@)]

\* for i in 0..self.lines.len() { self.handle_trailing_dash_verify(i); }
RECURSIVE TrailingDashes(_, _)
TrailingDashes(page_lines, i) ==
    IF i > Len(page_lines) THEN page_lines
    ELSE TrailingDashes(HandleTrailingDashVerify(page_lines, i), i + 1)

\* get_bracket_type gives Ok(None) at once for a glyph with
\* width * 2 > height
NoBracket(glyph) == glyph.rect.width * 2 > glyph.rect.height

\* Page::handle_matrixes_verify on a page whose glyphs all have
\* width * 2 > height: get_all_brackets is empty on every line, and the
\* while loop and the loop over glyphs_to_pop have nothing to go over
HandleMatrixesVerify(page_lines) == page_lines

\* a - b in u32 without overflow checks
WrappingSub(a, b) == (a - b) % INFINITY

\* a + b in f32 for distances: f32::INFINITY stays what it is
AddDist(a, b) == IF a >= INFINITY - b THEN INFINITY ELSE a + b

\* Word::get_dist_sum from the k-th glyph on: glyph.dist.unwrap_or(0.)
RECURSIVE GlyphDistSum(_, _)
GlyphDistSum(glyphs, k) ==
    IF k > Len(glyphs) THEN 0
    ELSE AddDist(IF glyphs[k].dist = <<>> THEN 0 ELSE glyphs[k].dist[1],
                 GlyphDistSum(glyphs, k + 1))

\* Line::get_dist_sum from the k-th word on
RECURSIVE GetDistSum(_, _)
GetDistSum(line, k) ==
    IF k > Len(line.words) THEN 0
    ELSE AddDist(GlyphDistSum(line.words[k].glyphs, 1), GetDistSum(line, k + 1))

\* Line::count_glyphes from the k-th word on
RECURSIVE CountGlyphes(_, _)
CountGlyphes(line, k) ==
    IF k > Len(line.words) THEN 0
    ELSE Len(line.words[k].glyphs) + CountGlyphes(line, k + 1)

\* line.get_dist_sum() / (line.count_glyphes() as f32) > 10.
PoorlyMatched(line) ==
    /\ CountGlyphes(line, 1) > 0
    /\ GetDistSum(line, 1) > Scaled(10) * CountGlyphes(line, 1)

\* a.abs_diff(b)
AbsDiff(a, b) == IF a >= b THEN a - b ELSE b - a

\* Line::is_full_line(page_margins)
IsFullLine(line, page_margins) ==
    /\ GetLeftMargin(line) # <<>> /\ GetRightMargin(line) # <<>>
    /\ AbsDiff(GetLeftMargin(line)[1], page_margins[1]) < 50
    /\ AbsDiff(GetRightMargin(line)[1], page_margins[2]) < 50

\* whether margins.1 - right_margin or left_margin - margins.0 goes below
\* zero on the line
MarginUnderflows(line, page_margins) ==
    /\ GetLeftMargin(line) # <<>> /\ GetRightMargin(line) # <<>>
    /\ \/ page_margins[2] < GetRightMargin(line)[1]
       \/ GetLeftMargin(line)[1] < page_margins[1]

\* the condition of get_middle_formula_indexes on a line
IsMiddleFormula(line, page_margins) ==
    /\ GetLeftMargin(line) # <<>> /\ GetRightMargin(line) # <<>>
    /\ WrappingSub(page_margins[2], GetRightMargin(line)[1])
           < (WrappingSub(GetLeftMargin(line)[1], page_margins[1]) + 25) % INFINITY
    /\ PoorlyMatched(line)
    /\ ~IsFullLine(line, page_margins)

\* Page::get_middle_formula_indexes, the margin modes given
GetMiddleFormulaIndexes(page_lines, page_margins) ==
    SelectSeq([k \in 1..Len(page_lines) |-> k],
              LAMBDA k : IsMiddleFormula(page_lines[k], page_margins))

\* Line::get_bottom: the min of word.rect().y + word.rect().height
GetBottom(line) ==
    IF line.words = <<>> THEN <<>>
    ELSE <<MinOf({line.words[k].rect.y + line.words[k].rect.height :
                     k \in DOMAIN line.words})>>

\* Line::get_top: the max of word.rect().y
GetTop(line) ==
    IF line.words = <<>> THEN <<>>
    ELSE <<MaxOf({line.words[k].rect.y : k \in DOMAIN line.words})>>

\* (line_margin as i32 - margins.0 as i32).abs() > 10 && count_glyphes() < 20
\* on a line next to a formula
Stray(line, page_margins) ==
    /\ GetLeftMargin(line) # <<>>
    /\ Abs(GetLeftMargin(line)[1] - page_margins[1]) > 10
    /\ CountGlyphes(line, 1) < 20

\* whether the line before the formula i goes to lines_to_remove
PrevRemoved(page_lines, i, page_margins) ==
    i > 1 /\ Stray(page_lines[i - 1], page_margins)

\* whether the line after the formula i goes to lines_to_remove
NextRemoved(page_lines, i, page_margins) ==
    /\ i + 1 <= Len(page_lines)
    /\ i + 1 # Len(page_lines)
    /\ Stray(page_lines[i + 1], page_margins)

\* y_top, an Option of an Option; self.lines.get(i - 1) for the first line,
\* when the subtraction wraps, is None
YTop(page_lines, i, page_margins) ==
    IF i = 1 THEN <<>>
    ELSE IF PrevRemoved(page_lines, i, page_margins)
    THEN <<GetTop(page_lines[i - 1])>>
    ELSE <<GetBottom(page_lines[i - 1])>>

\* y_bottom
YBottom(page_lines, i, page_margins) ==
    IF i + 1 > Len(page_lines) THEN <<>>
    ELSE IF NextRemoved(page_lines, i, page_margins)
    THEN <<GetBottom(page_lines[i + 1])>>
    ELSE <<GetTop(page_lines[i + 1])>>

\* what the iteration on the formula i pushes to lines_to_remove
RemovePushes(page_lines, i, page_margins) ==
    (IF PrevRemoved(page_lines, i, page_margins) THEN <<i - 1>> ELSE <<>>)
        \o (IF NextRemoved(page_lines, i, page_margins) THEN <<i + 1>> ELSE <<>>)

\* Rect::new(current_left_margin, top, current_line_width, bottom - top)
FormulaRect(line, top, bottom) ==
    Rect(IF GetLeftMargin(line) = <<>> THEN 0 ELSE GetLeftMargin(line)[1],
         top, line.rect.width, WrappingSub(bottom, top))

\* Word::from(rect, &image_page) with special_formula set to
\* GivenIaFormula(latex)
FormulaWord(rect, img) ==
    [rect |-> rect, glyphs |-> WordFrom(rect, img).glyphs,
     special_formula |-> <<"GivenIaFormula">>]

\* line.words.clear(); line.words.push(word) for the pairs of
\* lines_to_modify from the k-th on
RECURSIVE Modified(_, _, _)
Modified(page_lines, pairs, k) ==
    IF k > Len(pairs) THEN page_lines
    ELSE Modified([page_lines EXCEPT ![pairs[k][1]].words = <<pairs[k][2]>>],
                  pairs, k + 1)

Reverse(seq) == [k \in 1..Len(seq) |-> seq[Len(seq) + 1 - k]]

\* self.lines.remove(index) for the indexes from the k-th on: remove panics
\* on an index that is not in the Vec
RECURSIVE Removed(_, _, _)
Removed(page_lines, indexes, k) ==
    IF k > Len(indexes) THEN [lines |-> page_lines, panicked |-> FALSE]
    ELSE IF indexes[k] > Len(page_lines)
    THEN [lines |-> page_lines, panicked |-> TRUE]
    ELSE Removed(SubSeq(page_lines, 1, indexes[k] - 1)
                     \o SubSeq(page_lines, indexes[k] + 1, Len(page_lines)),
                 indexes, k + 1)

\* remove page number
PageNumberRemoved(page_lines) ==
    IF page_lines # <<>> /\ Len(page_lines[Len(page_lines)].words) = 1
    THEN SubSeq(page_lines, 1, Len(page_lines) - 1)
    ELSE page_lines

(***************************************************************************)
(* The specification of the verify pass: a page of up to MaxVerifyLines    *)
(* lines, PageWidth pixels wide, as Page::from and Page::guess leave it.   *)
(* A line goes from margin to margin ("full": a glyph at each end, in two  *)
(* words) or sits at the right ("middle": two glyphs in a word, "lone":    *)
(* one glyph).  Every glyph is a square of ink, matched against a font of  *)
(* one glyph: the same square, a dot in a square of the same size, or a    *)
(* glyph too small to be compared.                                         *)
(***************************************************************************)
MaxVerifyLines == 4
PageWidth == 60
GlyphSide == 4
VerifyShapes == {"full", "middle", "lone"}
Recognizers == {"ok", "missing", "garbled"}

\* the top of the k-th line: the lines are LINE_SPACING rows apart
LineY(k) == (k - 1) * (GlyphSide + LINE_SPACING)

InkAt(x, y) == UnknownGlyph(Rect(x, y, GlyphSide, GlyphSide), Solid(GlyphSide, GlyphSide).data)

\* the words Line::find_words makes of a line, before they are guessed
ShapeWords(shape, y) ==
    CASE shape = "full" ->
           <<[rect |-> Rect(0, y, GlyphSide, GlyphSide), glyphs |-> <<InkAt(0, y)>>],
             [rect |-> Rect(PageWidth - GlyphSide, y, GlyphSide, GlyphSide),
              glyphs |-> <<InkAt(PageWidth - GlyphSide, y)>>]>>
      [] shape = "middle" ->
           <<[rect |-> Rect(50, y, 2 * GlyphSide + 1, GlyphSide),
              glyphs |-> <<InkAt(50, y), InkAt(50 + GlyphSide + 1, y)>>]>>
      [] shape = "lone" ->
           <<[rect |-> Rect(50, y, GlyphSide, GlyphSide), glyphs |-> <<InkAt(50, y)>>]>>

\* the lines Page::from can make of the page
VerifyLines(shapes) ==
    LinesOf([k \in DOMAIN shapes |-> Rect(0, LineY(k), PageWidth, GlyphSide)],
            [k \in DOMAIN shapes |-> ShapeWords(shapes[k], LineY(k))])

\* the columns of the page a line has ink in
InkColumns(shape) ==
    UNION {UNION {g.rect.x..(g.rect.x + GlyphSide - 1) : g \in Range(w.glyphs)} :
              w \in Range(ShapeWords(shape, 0))}

\* the image of the page, given the columns each line has ink in
VerifyImage(columns) ==
    [width |-> PageWidth,
     height |-> Max(GlyphSide, LineY(Len(columns)) + GlyphSide),
     data |-> [n \in 1..(PageWidth * Max(GlyphSide, LineY(Len(columns)) + GlyphSide)) |->
        IF /\ columns # <<>>
           /\ ((n - 1) \div PageWidth) % (GlyphSide + LINE_SPACING) < GlyphSide
           /\ ((n - 1) % PageWidth)
                  \in columns[((n - 1) \div PageWidth) \div (GlyphSide + LINE_SPACING) + 1]
        THEN 0 ELSE WHITE]]

\* a dot in the corner of a white square
Dot ==
    [width |-> GlyphSide, height |-> GlyphSide,
     data |-> [n \in 1..(GlyphSide * GlyphSide) |-> IF n = 1 THEN 0 ELSE WHITE]]

\* the only glyph of the font
VerifyFont(code) ==
    {KnownGlyph("A", code, Solid(GlyphSide, GlyphSide), 0),
     KnownGlyph("-", code, Solid(GlyphSide, GlyphSide), 0),
     KnownGlyph(".", code, Dot, 0),
     KnownGlyph(".", code, Solid(1, 1), 0)}

VerifyInit ==
    /\ pc = "verify"
    /\ order = <<"cmr">>
    /\ \E n \in 0..MaxVerifyLines : \E shapes \in [1..n -> VerifyShapes] :
          /\ page_image = VerifyImage([k \in 1..n |-> InkColumns(shapes[k])])
          /\ overflow_checks \in BOOLEAN
          /\ \E glyph \in VerifyFont("cmr") :
                fontbase = [code \in {"cmr"} |-> LoadFamily(<<glyph>>)]
          /\ \E found \in VerifyLines(shapes) :
                \E done \in {[k \in 1..n |->
                                 LineGuess(found[k], fontbase, order, overflow_checks)]} :
                   /\ \A k \in 1..n : ~done[k].panicked
                   /\ lines = [k \in 1..n |-> done[k].line]
    /\ verbose \in BOOLEAN
    /\ recognizer \in Recognizers
    /\ guessed = DOMAIN lines
    /\ word_spacing = <<>>
    /\ threads = 8
    /\ handles = <<>> /\ tasks = <<>> /\ outcome = "none"
    /\ margins = <<>> /\ formula_indexes = <<>> /\ formula_iter = 0
    /\ lines_to_remove = <<>> /\ lines_to_modify = <<>>
    /\ baseline = 0 /\ aligned = TRUE /\ examined = <<>> /\ calls = 0
    /\ gray = NoImage
    /\ PartsIdle /\ FloodIdle /\ JoinIdle /\ DistIdle /\ LineIdle
    /\ WordIdle /\ LatexIdle /\ FontIdle /\ MainIdle

\* for i in 0..self.lines.len() { self.handle_trailing_dash_verify(i); }
\* self.handle_matrixes_verify(fontbase, args);
VerifyBegin ==
    /\ pc = "verify"
    /\ lines' = HandleMatrixesVerify(TrailingDashes(lines, 1))
    /\ pc' = "formulas"
    /\ UNCHANGED <<gray, page_image, word_spacing, overflow_checks, guessed,
                   partsVars, floodVars, joinVars, distVars, guessVars, lineVars,
                   threadVars, latexVars, fontVars, mainVars, verifyVars,
                   wordVars>>

\* handle_formulas_verify up to the scope: get_middle_formula_indexes, which
\* subtracts margins in u32, the margin modes once more, and the two logs
FormulaIndexes ==
    /\ pc = "formulas"
    /\ \E left \in GetLeftMarginMode(lines), right \in GetRightMarginMode(lines) :
          IF overflow_checks /\ \E k \in DOMAIN lines :
                                   MarginUnderflows(lines[k], <<left, right>>)
          THEN /\ pc' = "panic"
               /\ UNCHANGED <<formula_indexes, margins, outcome, wordVars>>
          ELSE /\ formula_indexes' = GetMiddleFormulaIndexes(lines, <<left, right>>)
               /\ IF formula_indexes' = <<>>
                  THEN pc' = "page number" /\ UNCHANGED <<margins, outcome, wordVars>>
                  ELSE /\ margins' \in {<<<<l, r>>>> : l \in GetLeftMarginMode(lines),
                                                       r \in GetRightMarginMode(lines)}
                       /\ \/ pc' = "scope" /\ outcome' = outcome
                          \/ verbose /\ pc' = "done" /\ outcome' = "Err"
    /\ UNCHANGED <<gray, recognizer, formula_iter, lines_to_remove, lines_to_modify,
                   threads, verbose, handles, tasks,
                   partsVars, floodVars, joinVars, distVars, guessVars, pageVars,
                   lineVars, latexVars, fontVars, mainVars,
                   wordVars>>

\* the thread of a formula: the rect between the lines around it
FormulaTask(i, top, bottom) ==
    [line |-> i, top |-> top, bottom |-> bottom, state |-> "running"]

\* one turn of the loop over formula_indexes: self.lines.get(i - 1)
\* subtracts in usize, i being 0 for the first line; a thread is spawned
\* when y_top and y_bottom are known, and with two handles held the first
\* is joined
FormulaSpawn ==
    /\ pc = "scope"
    /\ formula_iter < Len(formula_indexes)
    /\ \E i \in {formula_indexes[formula_iter + 1]} :
          IF GetLeftMargin(lines[i]) = <<>> \/ GetRightMargin(lines[i]) = <<>>
          THEN /\ pc' = pc
               /\ UNCHANGED <<lines_to_remove, tasks, handles, wordVars>>
          ELSE IF overflow_checks /\ i = 1
          THEN /\ pc' = "panic"
               /\ UNCHANGED <<lines_to_remove, tasks, handles, wordVars>>
          ELSE /\ lines_to_remove' =
                      lines_to_remove \o RemovePushes(lines, i, margins[1])
               /\ \E y_top \in {YTop(lines, i, margins[1])},
                     y_bottom \in {YBottom(lines, i, margins[1])} :
                     IF /\ y_top # <<>> /\ y_top[1] # <<>>
                        /\ y_bottom # <<>> /\ y_bottom[1] # <<>>
                     THEN /\ tasks' = Append(tasks,
                                 FormulaTask(i, y_top[1][1], y_bottom[1][1]))
                          /\ handles' = Append(handles, Len(tasks) + 1)
                          /\ pc' = IF Len(handles) + 1 >= 2 THEN "join" ELSE "scope"
                     ELSE pc' = pc /\ UNCHANGED <<tasks, handles, wordVars>>
    /\ formula_iter' = formula_iter + 1
    /\ UNCHANGED <<gray, recognizer, margins, formula_indexes, lines_to_modify,
                   threads, verbose, outcome,
                   partsVars, floodVars, joinVars, distVars, guessVars, pageVars,
                   lineVars, latexVars, fontVars, mainVars,
                   wordVars>>

\* handle.join().unwrap().unwrap() on the first handle: a thread that
\* panicked or returned an error makes the joining thread panic
Joined(next) ==
    /\ handles # <<>>
    /\ tasks[Head(handles)].state # "running"
    /\ IF tasks[Head(handles)].state = "Ok"
       THEN pc' = next /\ handles' = Tail(handles)
       ELSE pc' = "panic" /\ handles' = handles

\* if handles.len() >= 2 { handles.remove(0).join().unwrap().unwrap(); }
FormulaJoin ==
    /\ pc = "join"
    /\ Joined("scope")
    /\ UNCHANGED <<gray, threads, verbose, tasks, outcome, verifyVars,
                   partsVars, floodVars, joinVars, distVars, guessVars, pageVars,
                   lineVars, latexVars, fontVars, mainVars,
                   wordVars>>

\* for handle in handles { handle.join().unwrap().unwrap(); }
FormulaJoinRest ==
    /\ pc = "scope"
    /\ formula_iter = Len(formula_indexes)
    /\ Joined("scope")
    /\ UNCHANGED <<gray, threads, verbose, tasks, outcome, verifyVars,
                   partsVars, floodVars, joinVars, distVars, guessVars, pageVars,
                   lineVars, latexVars, fontVars, mainVars,
                   wordVars>>

\* the closure of the thread t: bottom - top is a u32 subtraction,
\* Model::predict fails when the script is not there or prints no ":",
\* log and save can fail; then the word of the formula is pushed to
\* lines_to_modify
FormulaThread(t) ==
    /\ tasks[t].state = "running"
    /\ \/ /\ overflow_checks /\ tasks[t].bottom < tasks[t].top
          /\ tasks' = [tasks EXCEPT ![t].state = "panicked"]
          /\ lines_to_modify' = lines_to_modify
       \/ /\ ~(overflow_checks /\ tasks[t].bottom < tasks[t].top)
          /\ \/ /\ recognizer # "ok"
                /\ tasks' = [tasks EXCEPT ![t].state = "Err"]
                /\ lines_to_modify' = lines_to_modify
             \/ /\ recognizer = "ok"
                /\ tasks' = [tasks EXCEPT ![t].state = "Err"]
                /\ lines_to_modify' = lines_to_modify
             \/ /\ recognizer = "ok"
                /\ tasks' = [tasks EXCEPT ![t].state = "Ok"]
                /\ lines_to_modify' = Append(lines_to_modify,
                       <<tasks[t].line,
                         FormulaWord(FormulaRect(lines[tasks[t].line], tasks[t].top,
                                                 tasks[t].bottom), page_image)>>)
    /\ UNCHANGED <<pc, gray, recognizer, margins, formula_indexes, formula_iter,
                   lines_to_remove, threads, verbose, handles, outcome,
                   partsVars, floodVars, joinVars, distVars, guessVars, pageVars,
                   lineVars, latexVars, fontVars, mainVars,
                   wordVars>>

\* after the scope: the logs, the words of lines_to_modify put in their
\* lines, and the lines of lines_to_remove removed from the last on
FormulasGenerated ==
    /\ pc = "scope"
    /\ formula_iter = Len(formula_indexes)
    /\ handles = <<>>
    /\ \/ /\ verbose
          /\ pc' = "done" /\ outcome' = "Err" /\ lines' = lines
       \/ \E after \in {Removed(Modified(lines, lines_to_modify, 1),
                                Reverse(lines_to_remove), 1)} :
             /\ lines' = after.lines
             /\ pc' = IF after.panicked THEN "panic" ELSE "page number"
             /\ outcome' = outcome
    /\ UNCHANGED <<gray, page_image, word_spacing, overflow_checks, guessed,
                   threads, verbose, handles, tasks, verifyVars,
                   partsVars, floodVars, joinVars, distVars, guessVars,
                   lineVars, latexVars, fontVars, mainVars,
                   wordVars>>

\* remove page number; Ok(())
PageNumber ==
    /\ pc = "page number"
    /\ lines' = PageNumberRemoved(lines)
    /\ outcome' = "Ok"
    /\ pc' = "done"
    /\ UNCHANGED <<gray, page_image, word_spacing, overflow_checks, guessed,
                   threads, verbose, handles, tasks, verifyVars,
                   partsVars, floodVars, joinVars, distVars, guessVars,
                   lineVars, latexVars, fontVars, mainVars,
                   wordVars>>

VerifyNext ==
    \/ VerifyBegin
    \/ FormulaIndexes
    \/ FormulaSpawn
    \/ FormulaJoin
    \/ FormulaJoinRest
    \/ \E t \in DOMAIN tasks : FormulaThread(t)
    \/ FormulasGenerated
    \/ PageNumber

SpecVerify == VerifyInit /\ [][VerifyNext]_vars

(***************************************************************************)
(* fonts/glyph.rs: KnownGlyph::latex; pdf/word.rs, pdf/line.rs and         *)
(* pdf/page.rs: get_latex, the text.  A String is the sequence of the      *)
(* pieces pushed to it.                                                    *)
(***************************************************************************)
\* KnownGlyph::get_data, but for the code, which latex does not read
GetData(glyph) ==
    [base |-> glyph.base, size |-> glyph.size, styles |-> glyph.styles,
     modifiers |-> glyph.modifiers, math |-> glyph.math]

\* let default = (String::new(), Code::Cmr, Size::Normalsize,
\*                vec![Style::Normal], vec![], false);
DefaultData ==
    [base |-> "", size |-> "normalsize", styles |-> <<"textnormal">>,
     modifiers |-> <<>>, math |-> FALSE]

\* prev.as_ref().unwrap_or(&default)
DataOr(option) == IF option = <<>> THEN DefaultData ELSE GetData(option[1])

\* size != p_size || math != p_math || styles != p_styles
Differs(data, d) ==
    data.size # d.size \/ data.math # d.math \/ data.styles # d.styles

\* for &style in styles { if style != Style::Normal { push "\\{style}{" } }
RECURSIVE StyleOpens(_, _)
StyleOpens(styles, k) ==
    IF k > Len(styles) THEN <<>>
    ELSE (IF styles[k] # "textnormal" THEN <<"\\", styles[k], "{">> ELSE <<>>)
             \o StyleOpens(styles, k + 1)

\* for &style in styles { if style != Style::Normal { push '}' } }
RECURSIVE StyleCloses(_, _)
StyleCloses(styles, k) ==
    IF k > Len(styles) THEN <<>>
    ELSE (IF styles[k] # "textnormal" THEN <<"}">> ELSE <<>>)
             \o StyleCloses(styles, k + 1)

\* modifiers.iter().fold(base.clone(), |acc, modif| format!("\\{modif}{{{acc}}}"))
RECURSIVE Folded(_, _, _)
Folded(acc, modifiers, k) ==
    IF k > Len(modifiers) THEN acc
    ELSE Folded(<<"\\", modifiers[k], "{">> \o acc \o <<"}">>, modifiers, k + 1)

\* the bases of the font that start with a backslash
Commands == {"\\alpha"}

\* what KnownGlyph::latex pushes before the base
Opens(data, p) ==
    IF Differs(data, p)
    THEN (IF data.size # "normalsize" /\ ~data.math
          THEN <<"{\\", data.size, " ">> ELSE <<>>)
         \o (IF data.math /\ ~p.math THEN <<"$">> ELSE <<>>)
         \o StyleOpens(data.styles, 1)
    ELSE <<>>

\* the base with its modifiers, and the space after a command
Body(data, n, end) ==
    Folded(<<data.base>>, data.modifiers, 1)
        \o (IF data.base \in Commands /\ n.math /\ ~end THEN <<" ">> ELSE <<>>)

\* what KnownGlyph::latex pushes after the base
Closes(data, n) ==
    IF Differs(data, n)
    THEN StyleCloses(data.styles, 1)
         \o (IF data.math /\ ~n.math THEN <<"$">> ELSE <<>>)
         \o (IF data.size # "normalsize" /\ ~data.math THEN <<"}">> ELSE <<>>)
    ELSE <<>>

\* KnownGlyph::get_latex(prev, next, end), in three parts
GlyphGetLatex(glyph, prev, next, end) ==
    [opens |-> Opens(GetData(glyph), DataOr(prev)),
     body |-> Body(GetData(glyph), DataOr(next), end),
     closes |-> Closes(GetData(glyph), DataOr(next))]

\* self.get_dist_sum() / (self.glyphs.len() as f32) < DIST_THRESHOLD * 4.0;
\* 0 / 0 is NaN, below nothing
WellMatched(w) ==
    /\ Len(w.glyphs) > 0
    /\ GlyphDistSum(w.glyphs, 1) < Scaled(DIST_THRESHOLD * 4) * Len(w.glyphs)

\* Word::get_first_guess
WordFirstGuess(w) == IF WellMatched(w) THEN w.glyphs[1].guess ELSE <<>>

\* Word::get_last_guess
WordLastGuess(w) ==
    IF WellMatched(w) THEN w.glyphs[Len(w.glyphs)].guess ELSE <<>>

\* glyph.guess.as_ref().map_or(String::from("?"), |g| g.get_latex(prev, next, end))
\* for the i-th glyph, counting from 1; self.glyphs.get(i - 1) is None for
\* the first one, when the subtraction wraps
GlyphParts(w, i, prev, next) ==
    IF w.glyphs[i].guess = <<>>
    THEN [opens |-> <<>>, body |-> <<"?">>, closes |-> <<>>]
    ELSE GlyphGetLatex(w.glyphs[i].guess[1],
                       IF i = 1 THEN prev ELSE w.glyphs[i - 1].guess,
                       IF i = Len(w.glyphs) THEN next ELSE w.glyphs[i + 1].guess,
                       i = Len(w.glyphs))

\* the parts of a word that has no special formula, glyph after glyph
WordParts(w, prev, next) ==
    [i \in 1..Len(w.glyphs) |-> GlyphParts(w, i, prev, next)]

\* collect() of the Strings of the parts from the k-th on
RECURSIVE Collected(_, _)
Collected(pieces, k) ==
    IF k > Len(pieces) THEN <<>>
    ELSE pieces[k].opens \o pieces[k].body \o pieces[k].closes
             \o Collected(pieces, k + 1)

\* Word::get_latex(prev, next)
WordGetLatex(w, prev, next) ==
    IF "special_formula" \in DOMAIN w /\ w.special_formula # <<>>
    THEN <<"$$", w.special_formula[1], "$$">>
    ELSE Collected(WordParts(w, prev, next), 1)

\* the neighbours Line::get_latex gives the i-th word, counting from 1
WordNeighbourBefore(line, i, prev) == IF i = 1 THEN prev ELSE WordLastGuess(line.words[i - 1])

WordNeighbourAfter(line, i, next) ==
    IF i = Len(line.words) THEN next ELSE WordFirstGuess(line.words[i + 1])

\* .collect::<Vec<String>>().join(" ") from the i-th word on
RECURSIVE WordsJoined(_, _, _, _)
WordsJoined(line, i, prev, next) ==
    IF i > Len(line.words) THEN <<>>
    ELSE WordGetLatex(line.words[i], WordNeighbourBefore(line, i, prev), WordNeighbourAfter(line, i, next))
             \o (IF i < Len(line.words) THEN <<" ">> ELSE <<>>)
             \o WordsJoined(line, i + 1, prev, next)

\* Line::is_middle_line(margins)
IsMiddleLine(line, page_margins) ==
    /\ GetLeftMargin(line) # <<>> /\ GetRightMargin(line) # <<>>
    /\ AbsDiff(AbsDiff(page_margins[2], GetRightMargin(line)[1]),
               AbsDiff(GetLeftMargin(line)[1], page_margins[1])) < 25
    /\ ~IsFullLine(line, page_margins)

\* Line::get_latex(prev, next), the margins of the page given
LineGetLatex(line, prev, next, page_margins) ==
    IF Len(line.words) # 1 /\ IsMiddleLine(line, page_margins)
    THEN <<"$$">> \o WordsJoined(line, 1, prev, next) \o <<"$$">>
    ELSE WordsJoined(line, 1, prev, next)

\* Line::get_first_guess
LineFirstGuess(line) ==
    IF line.words = <<>> THEN <<>> ELSE WordFirstGuess(line.words[1])

\* Line::get_last_guess
LineLastGuess(line) ==
    IF line.words = <<>> THEN <<>> ELSE WordLastGuess(line.words[Len(line.words)])

\* the neighbours Page::get_latex gives the i-th line, counting from 1
LinePrev(page_lines, i) == IF i = 1 THEN <<>> ELSE LineLastGuess(page_lines[i - 1])

LineNext(page_lines, i) ==
    IF i = Len(page_lines) THEN <<>> ELSE LineFirstGuess(page_lines[i + 1])

\* format!("\n    {}{}", line.get_latex(prev, next), newline) from the i-th
\* line on, collected
RECURSIVE PageGetLatex(_, _, _, _)
PageGetLatex(page_lines, i, right_margin_mode, left_margin_mode) ==
    IF i > Len(page_lines) THEN <<>>
    ELSE <<"\n    ">>
         \o LineGetLatex(page_lines[i], LinePrev(page_lines, i),
                         LineNext(page_lines, i),
                         <<left_margin_mode, right_margin_mode>>)
         \o (IF Newline(page_lines, i, right_margin_mode, left_margin_mode) = ""
             THEN <<>>
             ELSE <<Newline(page_lines, i, right_margin_mode, left_margin_mode)>>)
         \o PageGetLatex(page_lines, i + 1, right_margin_mode, left_margin_mode)

\* the parts of the glyphs of the words of a line from the i-th word on
RECURSIVE LineParts(_, _, _, _)
LineParts(line, i, prev, next) ==
    IF i > Len(line.words) THEN <<>>
    ELSE WordParts(line.words[i], WordNeighbourBefore(line, i, prev), WordNeighbourAfter(line, i, next))
             \o LineParts(line, i + 1, prev, next)

\* the parts of the glyphs of the page from the i-th line on
RECURSIVE PageParts(_, _)
PageParts(page_lines, i) ==
    IF i > Len(page_lines) THEN <<>>
    ELSE LineParts(page_lines[i], 1, LinePrev(page_lines, i), LineNext(page_lines, i))
             \o PageParts(page_lines, i + 1)

(***************************************************************************)
(* The specification of the text of Page::get_latex: a page of up to       *)
(* MaxLayoutGlyphs glyphs, each with no guess, a poor guess or a good one  *)
(* of a few fonts, cut into words and lines at any place; the last line of *)
(* a page of several lines is centred.                                     *)
(***************************************************************************)
MaxLayoutGlyphs == 3
LayoutKinds == {"none", "plain", "math", "poor math", "bold", "small"}
LayoutBreaks == {"glyph", "word", "line"}

\* the KnownGlyph of a kind
StyledGlyph(kind) ==
    [base |-> IF kind \in {"math", "poor math"} THEN "\\alpha" ELSE "x",
     code |-> "cmr",
     size |-> IF kind = "small" THEN "small" ELSE "normalsize",
     styles |-> IF kind = "bold" THEN <<"textbf">> ELSE <<"textnormal">>,
     modifiers |-> IF kind = "small" THEN <<"hat">> ELSE <<>>,
     math |-> kind \in {"math", "poor math"},
     rect |-> Rect(0, 0, 1, 1), image |-> <<0>>, offset |-> 0]

\* the glyph of a kind at (x, y), as try_guess leaves it: without a guess
\* its dist is infinite
LayoutGlyph(kind, x, y) ==
    [rect |-> Rect(x, y, 1, 1), image |-> <<0>>,
     dist |-> IF kind = "none" THEN <<INFINITY>>
              ELSE IF kind = "poor math"
              THEN <<Scaled(DIST_THRESHOLD * 4) * MaxLayoutGlyphs>>
              ELSE <<0>>,
     guess |-> IF kind = "none" THEN <<>> ELSE <<StyledGlyph(kind)>>]

\* the number of the line, counting from 1, the k-th glyph is on
RECURSIVE LineOf(_, _)
LineOf(breaks, k) ==
    IF k = 1 THEN 1
    ELSE LineOf(breaks, k - 1) + (IF breaks[k - 1] = "line" THEN 1 ELSE 0)

\* the first glyph of the word the k-th glyph is in
RECURSIVE WordStart(_, _)
WordStart(breaks, k) ==
    IF k = 1 \/ breaks[k - 1] # "glyph" THEN k ELSE WordStart(breaks, k - 1)

\* the first glyph of the line the k-th glyph is on
RECURSIVE LineStart(_, _)
LineStart(breaks, k) ==
    IF k = 1 \/ breaks[k - 1] = "line" THEN k ELSE LineStart(breaks, k - 1)

\* the column of the k-th glyph: the glyphs of a line are 30 columns apart,
\* and the last line of several starts in column 60
LayoutX(breaks, k) ==
    30 * (k - LineStart(breaks, k))
        + (IF LineOf(breaks, k) > 1 /\ LineOf(breaks, k) = LineOf(breaks, Len(breaks) + 1)
           THEN 60 ELSE 0)

\* the words made of the glyphs from..to
LayoutWords(kinds, breaks, from, to) ==
    LET firsts == {k \in from..to : WordStart(breaks, k) = k}
        Nth(n) == CHOOSE k \in firsts : Cardinality({j \in firsts : j <= k}) = n
        Last(k) == CHOOSE j \in k..to :
                       /\ WordStart(breaks, j) = k
                       /\ j = to \/ WordStart(breaks, j + 1) # k
    IN  [n \in 1..Cardinality(firsts) |->
            [rect |-> Rect(LayoutX(breaks, Nth(n)), 2 * LineOf(breaks, from),
                           LayoutX(breaks, Last(Nth(n))) + 1 - LayoutX(breaks, Nth(n)), 1),
             glyphs |-> [j \in 1..(Last(Nth(n)) - Nth(n) + 1) |->
                            LayoutGlyph(kinds[Nth(n) + j - 1],
                                        LayoutX(breaks, Nth(n) + j - 1),
                                        2 * LineOf(breaks, from))]]]

\* the lines of the page
LayoutLines(kinds, breaks) ==
    LET n == Len(kinds)
        firsts == {k \in 1..n : LineStart(breaks, k) = k}
        Nth(i) == CHOOSE k \in firsts : Cardinality({j \in firsts : j <= k}) = i
        Last(k) == CHOOSE j \in k..n :
                       /\ LineStart(breaks, j) = k
                       /\ j = n \/ LineStart(breaks, j + 1) # k
    IN  [i \in 1..Cardinality(firsts) |->
            Line(Rect(0, 2 * i, 200, 1), 2 * i + 1,
                 LayoutWords(kinds, breaks, Nth(i), Last(Nth(i))))]

LayoutInit ==
    /\ pc = "input"
    /\ \E n \in 1..MaxLayoutGlyphs :
          \E kinds \in [1..n -> LayoutKinds], breaks \in [1..(n - 1) -> LayoutBreaks] :
              lines = LayoutLines(kinds, breaks)
    /\ overflow_checks \in BOOLEAN
    /\ latex = <<>>
    /\ page_image = NoImage /\ word_spacing = <<>> /\ guessed = {}
    /\ gray = NoImage
    /\ PartsIdle /\ FloodIdle /\ JoinIdle /\ DistIdle /\ GuessIdle
    /\ LineIdle /\ MainIdle /\ ThreadIdle /\ FontIdle /\ VerifyIdle
    /\ WordIdle

\* page.get_latex(): its text, and the parts each glyph gave to it
GetLatexText ==
    /\ pc = "input"
    /\ \E right_margin_mode \in GetRightMarginMode(lines),
          left_margin_mode \in GetLeftMarginMode(lines) :
          IF overflow_checks /\ LatexOverflows(lines)
          THEN pc' = "panic" /\ latex' = latex
          ELSE /\ pc' = "done"
               /\ latex' = <<[text |-> PageGetLatex(lines, 1, right_margin_mode,
                                                    left_margin_mode),
                               parts |-> PageParts(lines, 1)]>>
    /\ UNCHANGED <<gray, page_image, word_spacing, overflow_checks, lines, guessed,
                   partsVars, floodVars, joinVars, distVars, guessVars, lineVars,
                   threadVars, fontVars, mainVars,
                   verifyVars, wordVars>>

LayoutNext == GetLatexText

SpecLayout == LayoutInit /\ [][LayoutNext]_vars

(***************************************************************************)
InkRow(img, i) == \E x \in 0..(img.width - 1) : Pix(img, x, i) # WHITE

InkRuns(img) ==
    {r \in (0..(img.height - 1)) \X (0..(img.height - 1)) :
        /\ r[1] <= r[2]
        /\ \A i \in r[1]..r[2] : InkRow(img, i)
        /\ r[1] = 0 \/ ~InkRow(img, r[1] - 1)
        /\ r[2] = img.height - 1 \/ ~InkRow(img, r[2] + 1)}

\* r2 is the run that follows r1
Consecutive(img, r1, r2) ==
    /\ r1 \in InkRuns(img) /\ r2 \in InkRuns(img)
    /\ r1[2] < r2[1]
    /\ \A i \in (r1[2] + 1)..(r2[1] - 1) : ~InkRow(img, i)

Gap(r1, r2) == r2[1] - r1[2] - 1

\* both runs lie in one returned region
SameRegion(ps, r1, r2) ==
    \E k \in 1..Len(ps) : ps[k][1] <= r1[1] /\ r2[2] <= ps[k][2]

\* C5: two consecutive ink runs separated by fewer than spacing white rows
\* are returned as one region, and as two regions when separated by spacing
\* rows or more.
C5_GapRule ==
    pc = "done" =>
        \A r1 \in InkRuns(gray), r2 \in InkRuns(gray) :
            Consecutive(gray, r1, r2) =>
                /\ Gap(r1, r2) < spacing => SameRegion(parts, r1, r2)
                /\ Gap(r1, r2) >= spacing => ~SameRegion(parts, r1, r2)

\* C6: an image with exactly one ink run of rows a..b yields exactly one
\* pair, the inclusive range (a, b), wherever the run lies.
C6_SingleRun ==
    pc = "done" =>
        \A r \in InkRuns(gray) :
            InkRuns(gray) = {r} => parts = << <<r[1], r[2]>> >>

(***************************************************************************)
(* Blobs and reachability, as the claims about flood_fill define them.     *)
(***************************************************************************)
Adjacent(p, q) ==
    /\ p # q
    /\ p[1] - q[1] \in -1..1
    /\ p[2] - q[2] \in -1..1

NonWhite(img) == {p \in Positions(img) : Pix(img, p[1], p[2]) < WHITE}

\* the least set that contains S and every pixel of `into` adjacent to a
\* pixel of the set that is in `from`
RECURSIVE Closure(_, _, _, _)
Closure(img, S, from, into) ==
    LET more == {p \in into : \E q \in S \cap from : Adjacent(p, q)}
    IN  IF more \subseteq S THEN S ELSE Closure(img, S \cup more, from, into)

\* the maximal 8-connected set of non-white pixels that contains p
Blob(img, p) == Closure(img, {p}, NonWhite(img), NonWhite(img))

AtOrBelow(img, t) == {p \in Positions(img) : Pix(img, p[1], p[2]) <= t}

SingleSeed ==
    /\ Len(start) = 1
    /\ start[1] \in NonWhite(gray)
    /\ start[1] \in AtOrBelow(gray, threshold)

\* C7 as claimed: from one seed at or below the threshold, flood_fill
\* returns exactly the seed's blob, the maximal 8-connected set of non-white
\* pixels containing the seed.
C7_ExactlyTheBlob ==
    (pc = "done" /\ SingleSeed) => Range(pixels) = Blob(gray, start[1])

\* C7 as amended: from one seed at or below the threshold, flood_fill
\* returns pixels of the seed's blob only, the seed among them and no pixel
\* of another blob, and returns the whole blob when every pixel of the blob
\* is at or below the threshold.
C7_WithinTheBlob ==
    (pc = "done" /\ SingleSeed) =>
        LET blob == Blob(gray, start[1]) IN
        /\ start[1] \in Range(pixels)
        /\ Range(pixels) \subseteq blob
        /\ blob \subseteq AtOrBelow(gray, threshold) => Range(pixels) = blob

\* a fill from one seed that returned a whole blob of several pixels and
\* left a second blob of the image alone
C7_Witness ==
    /\ pc = "done" /\ SingleSeed
    /\ Cardinality(Range(pixels)) >= 2
    /\ Range(pixels) = Blob(gray, start[1])
    /\ \E p \in NonWhite(gray) : p \notin Range(pixels)
    /\ \E p \in Range(pixels) : Pix(gray, p[1], p[2]) > CHAR_THRESHOLD

\* the pixels a path may run through, as C8 states it: reached from a seed
\* over pixels that are all at or below the threshold
PathInner(img, seeds, t) ==
    Closure(img, seeds \cap AtOrBelow(img, t), AtOrBelow(img, t), AtOrBelow(img, t))

\* the same, the pixels after the seed being non-white as well
PathInnerNonWhite(img, seeds, t) ==
    Closure(img, seeds \cap AtOrBelow(img, t), AtOrBelow(img, t),
            AtOrBelow(img, t) \cap NonWhite(img))

ReachedFrom(img, seeds, inner) ==
    seeds \cup {p \in NonWhite(img) : \E q \in inner : Adjacent(p, q)}

\* the worklist never holds a pixel twice, apart from a seed given twice, so
\* it is no longer than the seeds plus the non-white pixels of the image,
\* and index counts up to its length: the loop ends within that many steps
FloodVariant ==
    /\ index <= Len(pixels)
    /\ Len(pixels) <= Len(start) + Cardinality(NonWhite(gray))
    /\ \A j, k \in (Len(start) + 1)..Len(pixels) : pixels[j] = pixels[k] => j = k

\* C8 as claimed: flood_fill returns the seeds plus every non-white pixel p
\* with an 8-connected path from a seed to p on which every pixel before p
\* is at or below the threshold.
C8_ReachedSet ==
    pc = "done" =>
        Range(pixels) = ReachedFrom(gray, Range(start),
                                    PathInner(gray, Range(start), threshold))

\* C8 as amended: flood_fill returns the seeds plus every non-white pixel p
\* with an 8-connected path from a seed to p on which every pixel before p
\* is at or below the threshold and, the seed apart, non-white (so a pixel
\* above the threshold is collected but not expanded from), and the loop
\* ends within as many iterations as there are seeds and non-white pixels.
C8_ReachedSetNonWhite ==
    /\ FloodVariant
    /\ pc = "done" =>
            Range(pixels) = ReachedFrom(gray, Range(start),
                              PathInnerNonWhite(gray, Range(start), threshold))

\* a fill that collected a pixel above the threshold, did not go past it,
\* and left a non-white pixel behind it out
C8_Witness ==
    /\ pc = "done"
    /\ threshold = CHAR_THRESHOLD
    /\ \E p \in Range(pixels) : Pix(gray, p[1], p[2]) > threshold
    /\ \E p \in NonWhite(gray) : p \notin Range(pixels)
    /\ Cardinality(Range(pixels)) >= 3

(***************************************************************************)
(* The ink of a glyph at its place on the page.                            *)
(***************************************************************************)
InkOnPage(g) ==
    {<<g.rect.x + nx, g.rect.y + ny>> :
        <<nx, ny>> \in {q \in (0..(g.rect.width - 1)) \X (0..(g.rect.height - 1)) :
                           g.image[q[1] + q[2] * g.rect.width + 1] # WHITE}}

RectsOverlap(r1, r2) ==
    /\ r1.x < r2.x + r2.width /\ r2.x < r1.x + r1.width
    /\ r1.y < r2.y + r2.height /\ r2.y < r1.y + r1.height

\* C9: join(a, b) and join(b, a) have the same ink pixels, the union of the
\* ink pixels of a and of b at their places on the page, also when the
\* rects of a and b overlap.
C9_JoinCommutes ==
    pc = "done" =>
        /\ InkOnPage(joined[1]) = InkOnPage(swapped[1])
        /\ InkOnPage(joined[1]) = InkOnPage(self) \cup InkOnPage(other)

\* C10: the rect of join(a, b) is the smallest rect containing both rects.
C10_JoinRectBounds ==
    joined # <<>> =>
        LET r == joined[1].rect IN
        /\ r.x = Min(self.rect.x, other.rect.x)
        /\ r.y = Min(self.rect.y, other.rect.y)
        /\ r.x + r.width = Max(self.rect.x + self.rect.width,
                               other.rect.x + other.rect.width)
        /\ r.y + r.height = Max(self.rect.y + self.rect.height,
                                other.rect.y + other.rect.height)
        /\ Len(joined[1].image) = r.width * r.height

\* a join of two glyphs of different heights whose rects overlap, neither
\* containing the other: the left and bottom edges of the result come from
\* self, the top and right edges from other
C10_Witness ==
    /\ joined # <<>>
    /\ RectsOverlap(self.rect, other.rect)
    /\ self.rect.x < other.rect.x
    /\ self.rect.y > other.rect.y
    /\ self.rect.height < other.rect.height
    /\ joined[1].rect.width = 3
    /\ joined[1].rect.height = 2

\* C4: for an UnknownGlyph and a KnownGlyph with identical bitmaps and
\* identical rect dimensions, distance(k, 0, f32::MAX) is exactly 0.
C4_IdenticalIsZero ==
    (/\ pc = "done"
     /\ self.image = other.image
     /\ self.rect.width = other.rect.width
     /\ self.rect.height = other.rect.height
     /\ offset = 0
     /\ limit = INFINITY) => dist = <<0>>

\* a distance computed between two identical glyphs that hold ink, gray
\* ink included
C4_Witness ==
    /\ pc = "done"
    /\ self.image = other.image
    /\ self.rect.width = 2 /\ other.rect.width = 2
    /\ self.rect.height = 2 /\ other.rect.height = 2
    /\ \E i \in 1..4 : self.image[i] = 0
    /\ \E i \in 1..4 : self.image[i] = 128
    /\ offset = 0 /\ limit = INFINITY
    /\ dist = <<0>>

(***************************************************************************)
(* The nearest neighbour, as the claims about try_guess state it.          *)
(***************************************************************************)
AllKnown(fb) ==
    UNION {{fb[c][d][i] : i \in 1..Len(fb[c][d])} : <<c, d>> \in
              {cd \in (DOMAIN fb) \X (UNION {DOMAIN fb[c] : c \in DOMAIN fb}) :
                  cd[2] \in DOMAIN fb[cd[1]]}}

\* every KnownGlyph whose width and height each differ by at most 2
Neighbourhood(fb, s) ==
    {k \in AllKnown(fb) :
        /\ Abs(k.rect.width - s.rect.width) <= 2
        /\ Abs(k.rect.height - s.rect.height) <= 2}

\* the distance to k at the vertical shift that puts both on the baseline,
\* computed without a limit
AlignedDistance(s, k, base) ==
    Distance(s, k, k.offset - ((s.rect.y + s.rect.height) - base), INFINITY)

NoneGoodEnough == \A i \in 1..Len(examined) : examined[i].dist >= Scaled(DIST_THRESHOLD)

\* C1: after try_guess(fontbase, baseline, true) on a glyph whose dist was
\* None, if no examined candidate has a distance below DIST_THRESHOLD, dist
\* is the minimum over the neighbourhood of the distance at the baseline
\* shift (computed without a limit) and guess is a glyph that attains it;
\* with nothing in the neighbourhood dist is infinite and guess is None.
C1_NearestNeighbour ==
    (calls = 1 /\ aligned /\ NoneGoodEnough) =>
        LET near == Neighbourhood(fontbase, self) IN
        IF near = {} THEN self.dist = <<INFINITY>> /\ self.guess = <<>>
        ELSE /\ self.dist = <<MinOf({AlignedDistance(self, k, baseline) : k \in near})>>
             /\ Len(self.guess) = 1
             /\ self.guess[1] \in near
             /\ AlignedDistance(self, self.guess[1], baseline) = self.dist[1]

\* a first, aligned call that compared several candidates, none of them
\* good enough, among them one two pixels wider or higher than the glyph,
\* and found the best of them after a worse one
C1_Witness ==
    /\ calls = 1 /\ aligned /\ NoneGoodEnough
    /\ Len(examined) >= 2
    /\ examined[1].dist > self.dist[1]
    /\ self.dist[1] < INFINITY
    /\ \E i \in 1..Len(examined) :
           \/ Abs(examined[i].glyph.rect.width - self.rect.width) = 2
           \/ Abs(examined[i].glyph.rect.height - self.rect.height) = 2
    /\ \E i \in 1..Len(examined) :
           examined[i].dist # AlignedDistance(self, examined[i].glyph, baseline)

\* C2: a try_guess call on a glyph that has a dist, in which no examined
\* candidate has a distance strictly below that dist, leaves dist and guess
\* unchanged; dist never increases, and a guess is replaced or cleared only
\* by a call that strictly lowers dist.
C2_BestSoFar ==
    [][(calls' = calls + 1 /\ self.dist # <<>>) =>
          /\ (\A i \in 1..Len(examined') : examined'[i].dist >= self.dist[1])
                => (self'.dist = self.dist /\ self'.guess = self.guess)
          /\ self'.dist[1] <= self.dist[1]
          /\ (self.guess # <<>> /\ self'.guess # self.guess)
                => self'.dist[1] < self.dist[1]]_vars

(***************************************************************************)
(* A page with nothing but one rendering of the only glyph of the font.    *)
(***************************************************************************)
\* the only KnownGlyph of the FontBase
OnlyGlyph == CHOOSE k \in AllKnown(fontbase) : TRUE

\* the page is white but for one copy of the bitmap of the only glyph
SingleRendering ==
    /\ Cardinality(AllKnown(fontbase)) = 1
    /\ \E p \in Positions(page_image) :
          \A q \in Positions(page_image) :
              Pix(page_image, q[1], q[2]) =
                  GetPixelSigned(OnlyGlyph, q[1] - p[1], q[2] - p[2])

\* the glyphs of the page, line after line and word after word
GlyphsOfPage ==
    UNION {UNION {Range(lines[l].words[w].glyphs) :
                     w \in 1..Len(lines[l].words)} : l \in 1..Len(lines)}

\* C3: on a page whose only content is a noise-free rendering of the only
\* glyph "A" of the FontBase, the baseline being the one Line::find_baseline
\* computes, guessing the page leaves one glyph, with dist below
\* DIST_THRESHOLD and guess.base = "A".
C3_SingleGlyph ==
    (pc = "done" /\ SingleRendering) =>
        /\ Cardinality(GlyphsOfPage) = 1
        /\ \A g \in GlyphsOfPage :
              /\ g.dist # <<>> /\ g.dist[1] < Scaled(DIST_THRESHOLD)
              /\ g.guess # <<>> /\ g.guess[1].base = "A"


(***************************************************************************)
(* The baseline of a line.                                                 *)
(***************************************************************************)
LineBottoms == Bottoms(line_words, 1)

Occurrences(array, value) == Cardinality({i \in DOMAIN array : array[i] = value})

\* C11: for a line with at least one glyph, find_baseline returns a value
\* that occurs among the glyph bottoms of the line, and no other bottom
\* occurs more often; this includes a line of one glyph and a line whose
\* bottoms are all distinct.
C11_BaselineIsMode ==
    (pc = "done" /\ LineBottoms # <<>>) =>
        /\ Occurrences(LineBottoms, line_baseline[1]) >= 1
        /\ \A i \in DOMAIN LineBottoms :
              Occurrences(LineBottoms, LineBottoms[i])
                  <= Occurrences(LineBottoms, line_baseline[1])

\* the bottoms are the value B, n >= 2 times, and one larger value
OneOutlier(array, B) ==
    /\ Occurrences(array, B) >= 2
    /\ Occurrences(array, B) = Len(array) - 1
    /\ \E i \in DOMAIN array : array[i] > B

\* C12: when the glyph bottoms of a line are one value B occurring n >= 2
\* times and a single larger value, find_baseline returns B.
C12_OneOutlier ==
    pc = "done" =>
        \A B \in Range(LineBottoms) :
            OneOutlier(LineBottoms, B) => line_baseline = <<B>>

C12_Witness ==
    /\ pc = "done"
    /\ Len(LineBottoms) = MaxGlyphs
    /\ \E B \in Range(LineBottoms) :
          OneOutlier(LineBottoms, B) /\ line_baseline = <<B>>


(***************************************************************************)
(* The threads of Page::guess.                                             *)
(***************************************************************************)
\* the threads spawned and not yet joined
InFlight == {i \in DOMAIN tasks : ~tasks[i].joined}

TasksOf(k) == {i \in DOMAIN tasks : tasks[i].line = k}

\* C13: for every thread count T >= 1 and every number of lines, at every
\* moment at most T line tasks have been spawned and not yet joined.
C13_BoundedInFlight == threads >= 1 => Cardinality(InFlight) <= threads

C13_Witness ==
    /\ threads >= 1
    /\ Len(lines) > threads
    /\ Cardinality(InFlight) = threads
    /\ \A i \in InFlight : tasks[i].state = "running"

\* C14 as stated: when Page::guess has returned, with Ok or with Err, exactly
\* one task was spawned for each line and every spawned task has run to
\* completion.
C14_JoinBarrier ==
    pc = "done" =>
        /\ \A k \in 1..Len(lines) : Cardinality(TasksOf(k)) = 1
        /\ \A i \in DOMAIN tasks : tasks[i].state = "finished"

\* C14, amended: when Page::guess has returned, with Ok or with Err, every
\* spawned task has run to completion and no line has more than one task;
\* when it has returned Ok, every line has exactly one task.
C14_JoinBarrierAmended ==
    pc = "done" =>
        /\ \A i \in DOMAIN tasks : tasks[i].state = "finished"
        /\ \A k \in 1..Len(lines) : Cardinality(TasksOf(k)) <= 1
        /\ outcome = "Ok" => \A k \in 1..Len(lines) : Cardinality(TasksOf(k)) = 1

C14_Witness ==
    /\ pc = "done"
    /\ outcome = "Err"
    /\ Len(tasks) >= 1
    /\ Len(tasks) < Len(lines)
    /\ threads = MaxThreads

\* what Line::guess makes of a line on its own
Sequential(line) == LineGuess(line, fontbase, order, overflow_checks).line

\* the FontBase Page::guess was given
GivenFontBase ==
    [code \in {"cmr"} |-> LoadFamily(<<KnownGlyph("A", code, Solid(1, 1), 0)>>)]

\* C15 as stated: after Page::guess, page.lines has the length and the line
\* order it had, the FontBase is unchanged, and every line is what a
\* sequential Line::guess makes of that line, for every thread count and
\* every interleaving of the line tasks.
C15_OrderStable ==
    pc = "done" =>
        /\ fontbase = GivenFontBase
        /\ \E before \in FindLines(page_image, word_spacing) :
              /\ Len(lines) = Len(before)
              /\ \A k \in DOMAIN before : lines[k] = Sequential(before[k])

\* C15, amended: after Page::guess, page.lines has the length and the line
\* order it had, the FontBase is unchanged, every line a task was spawned
\* for is what a sequential Line::guess makes of it, and every other line
\* (there are such only when Page::guess returns Err) is as it was.
C15_OrderStableAmended ==
    pc = "done" =>
        /\ fontbase = GivenFontBase
        /\ \E before \in FindLines(page_image, word_spacing) :
              /\ Len(lines) = Len(before)
              /\ \A k \in DOMAIN before :
                    lines[k] = IF TasksOf(k) # {} THEN Sequential(before[k])
                               ELSE before[k]

C15_Witness ==
    /\ pc = "done"
    /\ outcome = "Ok"
    /\ threads = MaxThreads
    /\ Len(lines) = MaxLines
    /\ \A k \in DOMAIN lines :
          /\ Len(lines[k].words) >= 1
          /\ \A w \in DOMAIN lines[k].words :
                \A g \in DOMAIN lines[k].words[w].glyphs :
                    lines[k].words[w].glyphs[g].guess # <<>>


(***************************************************************************)
(* The line breaks of Page::get_latex.                                     *)
(***************************************************************************)
RightMarginsOf(page_lines) ==
    FilterMap([k \in DOMAIN page_lines |-> GetRightMargin(page_lines[k])], 1)

\* M occurs at least twice among the right margins, and more often than
\* every other right margin
UniqueMode(page_lines, M) ==
    /\ Occurrences(RightMarginsOf(page_lines), M) >= 2
    /\ \A v \in Range(RightMarginsOf(page_lines)) \ {M} :
          Occurrences(RightMarginsOf(page_lines), v)
              < Occurrences(RightMarginsOf(page_lines), M)

\* C16: when the right margins of the lines of a page have a unique most
\* frequent value M that occurs at least twice, get_right_margin_mode
\* returns M and get_latex appends a line-break marker to exactly the lines
\* whose right margin is more than 10 pixels short of M and whose
\* can_have_new_line is true, so to no line that ends at M.
C16_MarginMode ==
    \A M \in Range(RightMarginsOf(lines)) :
        (pc # "input" /\ UniqueMode(lines, M)) =>
            /\ pc = "done"
            /\ latex[1].right_margin_mode = M
            /\ \A i \in DOMAIN lines :
                  latex[1].newline[i] # "" <=>
                      /\ GetRightMargin(lines[i]) # <<>>
                      /\ M - GetRightMargin(lines[i])[1] > 10
                      /\ lines[i].can_have_new_line


(***************************************************************************)
(* Loading the FontBase.                                                   *)
(***************************************************************************)
\* the glyphs of the files of a family that were read and decode, in the
\* order of the sizes from the k-th on
RECURSIVE DecodableGlyphs(_, _)
DecodableGlyphs(code, k) ==
    IF k > Len(FontSizes) THEN <<>>
    ELSE LET file == font_files[<<code, FontSizes[k]>>]
         IN  (IF file.read = "ok" /\ file.decoded # <<>> THEN file.decoded[1] ELSE <<>>)
             \o DecodableGlyphs(code, k + 1)

SomeCorrupt == \E key \in DOMAIN font_files : font_files[key] = Corrupt

SomeMissing == \E key \in DOMAIN font_files : font_files[key] = Missing

\* C18 as stated: when glyph files are missing or cannot be decoded, loading
\* the FontBase still returns Ok (unless logging fails), and these files
\* contribute no glyphs: every family holds the glyphs of its other files.
C18_FontFileDegradation ==
    (pc = "done" /\ outcome # "Err(log)") =>
        /\ outcome = "Ok"
        /\ \A code \in Range(FontCodes) :
              fontbase[code] = LoadFamily(DecodableGlyphs(code, 1))

\* C18, amended: a missing glyph file contributes no glyphs and does not
\* fail the load, which returns Ok with every family holding the glyphs of
\* its files when no file is corrupt (and logging does not fail); a file
\* that cannot be decoded fails the load with the error of the decoder.
C18_FontFileDegradationAmended ==
    pc = "done" =>
        /\ SomeCorrupt => outcome \in {"Err(decode)", "Err(log)"}
        /\ ~SomeCorrupt => outcome \in {"Ok", "Err(log)"}
        /\ outcome = "Ok" =>
              \A code \in Range(FontCodes) :
                  fontbase[code] = LoadFamily(DecodableGlyphs(code, 1))

C18_Witness ==
    /\ pc = "done"
    /\ outcome = "Ok"
    /\ SomeMissing
    /\ \E code \in Range(FontCodes) : fontbase[code] # <<>>


(***************************************************************************)
(* The end of the process.                                                 *)
(***************************************************************************)
\* C19: whenever processing has returned an Err, the program prints the
\* error to standard error and ends with a non-zero exit status.
C19_FatalErrorsExitNonZero ==
    (exit_status # <<>> /\ errors # <<>>) =>
        /\ stderr = errors
        /\ exit_status[1] # 0


(***************************************************************************)
(* The early exit of try_guess.                                            *)
(***************************************************************************)
\* C20: in a try_guess call on a glyph whose dist is None, a candidate
\* found at a distance below DIST_THRESHOLD is the last candidate compared
\* (the candidates being compared in the order of the families, size
\* buckets and glyphs), it becomes the guess of the glyph and its distance
\* the dist.
C20_EarlyExit ==
    calls = 1 =>
        /\ \A i \in 1..Len(examined) :
              examined[i].glyph = Candidates(fontbase, order, self.rect)[i]
        /\ \A i \in 1..Len(examined) :
              examined[i].dist < Scaled(DIST_THRESHOLD) =>
                  /\ i = Len(examined)
                  /\ self.guess = <<examined[i].glyph>>
                  /\ self.dist = <<examined[i].dist>>

C20_Witness ==
    /\ calls = 1
    /\ Len(examined) >= 2
    /\ Len(examined) < Len(Candidates(fontbase, order, self.rect))
    /\ examined[Len(examined)].dist < Scaled(DIST_THRESHOLD)
    /\ examined[Len(examined)].glyph.code # examined[1].glyph.code
    /\ self.guess = <<examined[Len(examined)].glyph>>


(***************************************************************************)
(* Poor matches in the verify pass.                                        *)
(***************************************************************************)
\* C17: the verify pass of Pdf::guess neither returns an error nor panics
\* because of how badly glyphs match: it fails only on pages of which no
\* line was taken as a formula for its poor match.
C17_PoorMatchNoError ==
    (pc = "panic" \/ outcome = "Err") => formula_indexes = <<>>

(***************************************************************************)
(* Word::guess: the merge loop.                                            *)
(***************************************************************************)
\* the previous glyph's right edge overlaps the glyph at code index i or
\* lies within WORD_SPACING / 4 pixels of its left edge, or the glyph is
\* matched worse than DIST_THRESHOLD
NearOrPoor(glyphs, i) ==
    \/ glyphs[i].rect.x + glyphs[i].rect.width + (WORD_SPACING \div 4)
           >= glyphs[i + 1].rect.x
    \/ DistOr(glyphs[i + 1]) > Scaled(DIST_THRESHOLD)

\* C21: the head of the merge loop goes on to a merge attempt for the glyph
\* at index i exactly when the previous glyph's right edge overlaps it or
\* lies within WORD_SPACING / 4 pixels of its left edge, or its dist
\* exceeds DIST_THRESHOLD.
C21_MergeTrigger ==
    step.kind = "head" => (step.accepted <=> NearOrPoor(step.before, step.at))

\* the largest dist of the glyphs from..to, a missing dist being infinity
WorstDist(glyphs, from, to) ==
    CHOOSE d \in {DistOr(glyphs[k]) : k \in from..to} :
        \A k \in from..to : DistOr(glyphs[k]) <= d

\* the smallest rect holding the rects of the glyphs from..to
Bounding(glyphs, from, to) ==
    LET left == CHOOSE v \in {glyphs[k].rect.x : k \in from..to} :
                    \A k \in from..to : v <= glyphs[k].rect.x
        top == CHOOSE v \in {glyphs[k].rect.y : k \in from..to} :
                    \A k \in from..to : v <= glyphs[k].rect.y
        right == CHOOSE v \in {glyphs[k].rect.x + glyphs[k].rect.width : k \in from..to} :
                    \A k \in from..to : v >= glyphs[k].rect.x + glyphs[k].rect.width
        bottom == CHOOSE v \in {glyphs[k].rect.y + glyphs[k].rect.height : k \in from..to} :
                    \A k \in from..to : v >= glyphs[k].rect.y + glyphs[k].rect.height
    IN  Rect(left, top, right - left, bottom - top)

\* how many predecessors the last attempt joined to the glyph at the base
\* index
Predecessors ==
    IF step.accepted THEN Len(step.before) - Len(word_glyphs)
    ELSE collapse_length - 1

\* C22: a join of the glyph at the base index with its 1 or 2 predecessors
\* replaces exactly these glyphs by the joined glyph, at the place of the
\* leftmost, exactly when its dist after try_guess is strictly below the
\* largest of their dists (a missing dist being infinity), and the scan
\* resumes just left of the merged glyph; otherwise the glyphs are
\* unchanged; 2 predecessors are tried only when 1 was not accepted.
C22_MergeAcceptance ==
    step.kind = "attempt" =>
        LET from == step.at
            to == step.at + Predecessors
            new == step.new[1]
        IN  /\ Predecessors \in 1..2
            /\ to <= Len(step.before)
            /\ new.rect = Bounding(step.before, from, to)
            /\ step.accepted <=> DistOr(new) < WorstDist(step.before, from, to)
            /\ IF DistOr(new) < WorstDist(step.before, from, to)
               THEN /\ word_glyphs = SubSeq(step.before, 1, from - 1) \o <<new>>
                                        \o SubSeq(step.before, to + 1, Len(step.before))
                    /\ collapse_length = 0
                    /\ base_index = from - 1
               ELSE /\ word_glyphs = step.before
                    /\ base_index = to - 1
            /\ Predecessors = 2 =>
                   DistOr(TryGuess(Join(step.before[to], step.before[to - 1]),
                                   fontbase, order, baseline, TRUE))
                       >= WorstDist(step.before, to - 1, to)

\* three glyphs were replaced by their join
C22_Witness ==
    /\ step.kind = "attempt" /\ step.accepted /\ Predecessors = 2
    /\ Len(word_glyphs) = Len(step.before) - 2

\* what is left of Word::guess to run: the glyphs the while loop has not
\* examined yet, then the turns left in the for loop, then the exit
Rank ==
    CASE pc = "word" -> 4 * Len(word_glyphs) + 2
      [] pc = "merge" -> 4 * base_index + 1
                           + (IF collapse_length = 0 THEN 0 ELSE 4 - collapse_length)
      [] OTHER -> 0

\* C23: the merge loop terminates (every step of Word::guess lowers a
\* rank that is never negative), and it makes at most 2 * (n - 1) joins
\* followed by try_guess on a word of n glyphs; a word in which no glyph
\* was found has no pair of glyphs to join, and the loop makes none.
C23_MergeTerminates ==
    /\ [](Rank >= 0)
    /\ [][Rank' < Rank]_vars
    /\ [](pc # "word" =>
             IF detected = <<>> THEN attempts = 0
             ELSE attempts <= 2 * (Len(detected) - 1))

\* the loop ended on a word of four glyphs after two joins at each of the
\* last two and one at the second
C23_Witness ==
    pc = "done" /\ Len(detected) = 4 /\ attempts = 5

\* C24: the glyphs of a word are in non-decreasing order of rect.x once
\* find_glyphs returned them, and after every merge.
C24_SortedByX ==
    \A k \in 1..(Len(word_glyphs) - 1) :
        word_glyphs[k].rect.x <= word_glyphs[k + 1].rect.x

\* the join of the detected glyphs lo..hi, taken from the right as the for
\* loop does
RECURSIVE JoinedRun(_, _)
JoinedRun(lo, hi) ==
    IF lo = hi THEN detected[hi]
    ELSE Join(JoinedRun(lo + 1, hi), detected[lo])

\* C29: during the merge loop the glyphs of the word are, in the order of
\* detection, the joins of disjoint contiguous runs of the detected glyphs
\* that cover all of them; a run has 1, 2 or 3 glyphs; a glyph made by a
\* merge is not merged again.
C29_MergePartition ==
    pc # "word" =>
        /\ Len(runs) = Len(word_glyphs)
        /\ Len(detected) > 0 =>
               /\ Len(runs) > 0
               /\ runs[1].lo = 1
               /\ runs[Len(runs)].hi = Len(detected)
        /\ \A k \in 1..(Len(runs) - 1) : runs[k + 1].lo = runs[k].hi + 1
        /\ \A k \in 1..Len(runs) :
               /\ runs[k].hi - runs[k].lo \in 0..2
               /\ runs[k].merges = (IF runs[k].hi > runs[k].lo THEN 1 ELSE 0)
               /\ word_glyphs[k].rect = JoinedRun(runs[k].lo, runs[k].hi).rect
               /\ word_glyphs[k].image = JoinedRun(runs[k].lo, runs[k].hi).image

\* a word of four glyphs that ends as a join of three of them and the
\* fourth
C29_Witness ==
    /\ pc = "done" /\ Len(detected) = 4 /\ Len(runs) = 2
    /\ \E k \in 1..Len(runs) : runs[k].hi - runs[k].lo = 2

(***************************************************************************)
(* Word::find_glyphs and the connected components of the dark pixels.      *)
(***************************************************************************)
\* the dark pixels of an image
DarkPixels(img) ==
    {p \in (0..(img.width - 1)) \X (0..(img.height - 1)) :
        Pix(img, p[1], p[2]) <= CHAR_THRESHOLD}

\* two pixels that touch by a side or by a corner
Touching(p, q) == p # q /\ Abs(p[1] - q[1]) <= 1 /\ Abs(p[2] - q[2]) <= 1

\* the pixels of dark that a chain of touching pixels of dark links to one
\* of comp
RECURSIVE ComponentOf(_, _)
ComponentOf(comp, dark) ==
    LET more == {q \in dark \ comp : \E p \in comp : Touching(p, q)}
    IN  IF more = {} THEN comp ELSE ComponentOf(comp \cup more, dark)

\* the 8-connected components of the dark pixels
Components(img) == {ComponentOf({p}, DarkPixels(img)) : p \in DarkPixels(img)}

\* the dark pixels of a glyph, in the coordinates of the word crop
DarkOf(glyph, bounds) ==
    {<<glyph.rect.x - bounds.x + nx, glyph.rect.y - bounds.y + ny>> :
        <<nx, ny>> \in {q \in (0..(glyph.rect.width - 1)) \X (0..(glyph.rect.height - 1)) :
                           GetPixel(glyph, q[1], q[2]) <= CHAR_THRESHOLD}}

\* C25: find_glyphs yields exactly one glyph for each 8-connected component
\* of the dark pixels of the word crop, that holds the component's dark
\* pixels and no other, so that a dark pixel belongs to exactly one glyph
\* and no glyph is seeded again from a removed one.
C25_OneGlyphPerComponent ==
    pc = "done" =>
        LET found == line_words[1]
            crop == ToLuma8(Crop(found.rect, page_image))
        IN  /\ Len(found.glyphs) = Cardinality(Components(crop))
            /\ \A k \in 1..Len(found.glyphs) :
                   DarkOf(found.glyphs[k], found.rect) \in Components(crop)
            /\ \A p \in DarkPixels(crop) :
                   Cardinality({k \in 1..Len(found.glyphs) :
                                   p \in DarkOf(found.glyphs[k], found.rect)}) = 1

\* two components that the same lighter pixel touches, each found once
C25_Witness ==
    /\ pc = "done" /\ Len(line_words[1].glyphs) = 2
    /\ \E p \in (0..(page_image.width - 1)) \X (0..2) :
          /\ Pix(page_image, p[1], p[2]) = CHAR_THRESHOLD + 1
          /\ \A k \in 1..2 :
                 \E q \in DarkOf(line_words[1].glyphs[k], Rect(0, 0, 0, 0)) :
                     Touching(p, q)

(***************************************************************************)
(* Glyph::distance: one correspondence for both passes.                    *)
(***************************************************************************)
\* the sum of f over the pixels of a rect of the given width and height
RECURSIVE SumOver(_, _, _, _)
SumOver(f(_, _), width, height, n) ==
    IF n >= width * height THEN 0
    ELSE f(n % width, n \div width) + SumOver(f, width, height, n + 1)

\* the total of the shift (dx, dy) when the pixel p of self is matched with
\* the pixel p + (dx, dy) of the candidate in both passes
MatchedTotal(s, o, dx, dy) ==
    LET First(x, y) ==
            IF GetPixel(s, x, y) # WHITE
            THEN Square(GetPixel(s, x, y) - GetPixelSigned(o, x + dx, y + dy))
            ELSE 0
        Second(x, y) ==
            IF GetPixelSigned(s, x - dx, y - dy) = WHITE
            THEN Square(WHITE - GetPixel(o, x, y))
            ELSE 0
    IN  SumOver(First, s.rect.width, s.rect.height, 0)
            + SumOver(Second, o.rect.width, o.rect.height, 0)

\* C27: with pixel p of self matched to pixel p + (dx, dy) of the candidate,
\* distance is the least, over the 9 shifts, of the squared differences at
\* the ink pixels of self plus the squared (1 - candidate(q)) at the
\* candidate pixels q whose matching pixel of self is background.
C27_SameCorrespondence ==
    (pc = "done" /\ limit = INFINITY) =>
        dist = <<MinOf({MatchedTotal(self, other, d[1], d[2]) : d \in Shifts(offset)})>>

(***************************************************************************)
(* try_guess and the order in which the FontBase is iterated.              *)
(***************************************************************************)
\* the glyph before its first try_guess
Fresh(glyph) == [glyph EXCEPT !.dist = <<>>, !.guess = <<>>]

\* two FontBases that hold the same glyphs in the same buckets
SameGlyphs(fb1, fb2) ==
    /\ DOMAIN fb1 = DOMAIN fb2
    /\ \A code \in DOMAIN fb1 :
           /\ DOMAIN fb1[code] = DOMAIN fb2[code]
           /\ \A d \in DOMAIN fb1[code] :
                  /\ Len(fb1[code][d]) = Len(fb2[code][d])
                  /\ Range(fb1[code][d]) = Range(fb2[code][d])

\* C28: the guess and the dist try_guess gives a fresh glyph do not depend
\* on the order in which the families are iterated nor on the order of the
\* glyphs in a bucket.
C28_OrderIndependent ==
    calls = 1 =>
        \A ord \in {<<"cmr", "lmr">>, <<"lmr", "cmr">>} :
            \A fb \in {f \in FontBases : SameGlyphs(f, fontbase)} :
                /\ TryGuess(Fresh(self), fb, ord, baseline, aligned).dist = self.dist
                /\ TryGuess(Fresh(self), fb, ord, baseline, aligned).guess = self.guess

(***************************************************************************)
(* handle_formulas_verify: the lines it removes.                           *)
(***************************************************************************)
\* the tops of the lines of the page, which tell them apart
Tops(page_lines) == {page_lines[k].rect.y : k \in 1..Len(page_lines)}

\* C30: when handle_formulas_verify returns, the lines of the page are the
\* lines it started with but those its loop put in lines_to_remove; each
\* of these is there once and none is a formula line.
C30_ExactRemoval ==
    (pc = "page number" /\ formula_indexes # <<>>) =>
        /\ Tops(lines) = {LineY(k) : k \in guessed \ Range(lines_to_remove)}
        /\ Len(lines) = Cardinality(guessed \ Range(lines_to_remove))
        /\ Range(lines_to_remove) \cap Range(formula_indexes) = {}
        /\ \A j, k \in 1..Len(lines_to_remove) :
               lines_to_remove[j] = lines_to_remove[k] => j = k

\* the glyphs of the words from the i-th on, one after the other
RECURSIVE GlyphsOfWords(_, _)
GlyphsOfWords(words_, i) ==
    IF i > Len(words_) THEN <<>>
    ELSE words_[i].glyphs \o GlyphsOfWords(words_, i + 1)

\* the glyphs of the page from the i-th line on, in reading order
RECURSIVE GlyphsInOrder(_, _)
GlyphsInOrder(page_lines, i) ==
    IF i > Len(page_lines) THEN <<>>
    ELSE GlyphsOfWords(page_lines[i].words, 1) \o GlyphsInOrder(page_lines, i + 1)

\* from the k-th piece on, with depth groups and commands open and math
\* open or not: no brace closes what was not opened, no brace stays open,
\* and the dollars pair up
RECURSIVE Balanced(_, _, _, _)
Balanced(text, k, depth, math) ==
    IF k > Len(text) THEN depth = 0 /\ ~math
    ELSE IF text[k] \in {"{", "{\\"} THEN Balanced(text, k + 1, depth + 1, math)
    ELSE IF text[k] = "}" THEN depth > 0 /\ Balanced(text, k + 1, depth - 1, math)
    ELSE IF text[k] = "$" THEN Balanced(text, k + 1, depth, ~math)
    ELSE Balanced(text, k + 1, depth, math)

\* the data of the guess of the k-th of the glyphs, the default where there
\* is no such glyph or it has no guess
DataAt(glyphs, k) ==
    IF k \in DOMAIN glyphs THEN DataOr(glyphs[k].guess) ELSE DefaultData

\* C26: the text of a page opens a size group, a style command or a math
\* region only at a glyph whose (size, styles, math) differ from those of
\* the glyph before it, closes one only at a glyph whose (size, styles,
\* math) differ from those of the glyph after it, and closes everything it
\* opens: braces balance and dollars pair up, also across the words and
\* lines whose boundary guess get_first_guess / get_last_guess withhold
C26_BalancedRegions ==
    (pc = "done" /\ latex # <<>> /\ "parts" \in DOMAIN latex[1]) =>
        /\ Balanced(latex[1].text, 1, 0, FALSE)
        /\ \A k \in DOMAIN latex[1].parts :
              /\ latex[1].parts[k].opens # <<>> =>
                     Differs(DataAt(GlyphsInOrder(lines, 1), k),
                             DataAt(GlyphsInOrder(lines, 1), k - 1))
              /\ latex[1].parts[k].closes # <<>> =>
                     Differs(DataAt(GlyphsInOrder(lines, 1), k),
                             DataAt(GlyphsInOrder(lines, 1), k + 1))

=============================================================================
